---------------------------- MODULE Spec2Model ----------------------------
(***************************************************************************)
(* A model of the Account / Address service (nyu-devops/sample-accounts):  *)
(* the two entity classes with their serialize / deserialize methods, the  *)
(* PersistentBase create / update / delete / find / all methods running on *)
(* an ORM unit-of-work session, the relational tables with the constraints *)
(* the schema declares, and the route handlers built on top of them.       *)
(*                                                                         *)
(* Three specifications share the variables:                               *)
(*   SpecSerde   serialize / deserialize applied to bounded inputs         *)
(*   Spec        the model layer: one session, entities created, mutated,  *)
(*               created / updated / deleted, as the model tests do        *)
(*   SpecRoutes  the route handlers, one session per request, interleaved  *)
(***************************************************************************)
EXTENDS Integers, Sequences, FiniteSets, TLC

VARIABLES
    accountTable,   \* committed rows of table account: id -> row
    addressTable,   \* committed rows of table address: id -> row
    accountSeq,     \* last value handed out by the sequence of account.id
    addressSeq,     \* last value handed out by the sequence of address.id
    accountObj,     \* the Account objects in memory: slot -> object
    addressObj,     \* the Address objects in memory: slot -> object
    pending,        \* session.new for Address: slots in the order they were added
    last,           \* the last call: operation, target, exception raised, result
    wire,           \* the dictionary last produced by serialize()
    steps,          \* operations of the model layer made so far
    request,        \* the requests in progress: request -> handler and position
    today           \* the value date.today() returns now

vars == <<accountTable, addressTable, accountSeq, addressSeq,
          accountObj, addressObj, pending, last, wire, steps, request, today>>

-----------------------------------------------------------------------------
(* Bounds of the model.                                                    *)

\* Account objects that exist in memory at once.
MaxAccountObjs == 2
\* Address objects that exist in memory at once.
MaxAddressObjs == 2
\* The sequences stop handing out ids after this value.
MaxId == 3
\* Operations of the model layer in one run.
MaxSteps == 7
\* Steps of request handlers in one run.
MaxRequestSteps == 4
\* Midnights that pass while the service runs.
MaxDays == 1

AccountSlots == 1 .. MaxAccountObjs
AddressSlots == 1 .. MaxAddressObjs

-----------------------------------------------------------------------------
(* Python values.  A str is a sequence of one-character strings, so that   *)
(* formatting and parsing work on the characters.                          *)

None == [t |-> "none"]
PyInt(i) == [t |-> "int", i |-> i]
PyStr(s) == [t |-> "str", s |-> s]
PyDate(y, m, d) == [t |-> "date", y |-> y, m |-> m, d |-> d]
PyList(items) == [t |-> "list", items |-> items]
PyDict(d) == [t |-> "dict", d |-> d]

IsNone(v) == v.t = "none"
\* Python truthiness of the values an id can hold: `not self.id`.
Falsy(v) ==
    \/ v.t = "none"
    \/ v.t = "int" /\ v.i = 0
    \/ v.t = "str" /\ v.s = <<>>


-----------------------------------------------------------------------------
(* datetime.date: isoformat() and date.fromisoformat().                    *)

DigitChars == <<"0", "1", "2", "3", "4", "5", "6", "7", "8", "9">>
IsDigit(c) == \E n \in 1 .. 10 : DigitChars[n] = c
DigitOf(c) == (CHOOSE n \in 1 .. 10 : DigitChars[n] = c) - 1
CharOf(n) == DigitChars[n + 1]

IsLeap(y) == (y % 4 = 0 /\ y % 100 # 0) \/ y % 400 = 0
DaysInMonth(y, m) ==
    IF m = 2 THEN (IF IsLeap(y) THEN 29 ELSE 28)
    ELSE IF m \in {4, 6, 9, 11} THEN 30 ELSE 31

\* The dates the date class can hold (MINYEAR = 1, MAXYEAR = 9999).
ValidDate(y, m, d) ==
    /\ y \in 1 .. 9999
    /\ m \in 1 .. 12
    /\ d \in 1 .. DaysInMonth(y, m)

\* Isoformat with day and month exchanged ("%Y-%d-%m").
IsoformatDayFirst(v) ==
    << CharOf(v.y \div 1000), CharOf((v.y \div 100) % 10),
       CharOf((v.y \div 10) % 10), CharOf(v.y % 10), "-",
       CharOf(v.d \div 10), CharOf(v.d % 10), "-",
       CharOf(v.m \div 10), CharOf(v.m % 10) >>

\* date.isoformat(): "%04d-%02d-%02d".
Isoformat(v) ==
    << CharOf(v.y \div 1000), CharOf((v.y \div 100) % 10),
       CharOf((v.y \div 10) % 10), CharOf(v.y % 10), "-",
       CharOf(v.m \div 10), CharOf(v.m % 10), "-",
       CharOf(v.d \div 10), CharOf(v.d % 10) >>

\* The text is YYYY-MM-DD: ten characters, digits around two dashes.
IsoShape(s) ==
    /\ Len(s) = 10
    /\ s[5] = "-" /\ s[8] = "-"
    /\ \A i \in {1, 2, 3, 4, 6, 7, 9, 10} : IsDigit(s[i])

IsoYear(s) == DigitOf(s[1]) * 1000 + DigitOf(s[2]) * 100 + DigitOf(s[3]) * 10 + DigitOf(s[4])
IsoMonth(s) == DigitOf(s[6]) * 10 + DigitOf(s[7])
IsoDay(s) == DigitOf(s[9]) * 10 + DigitOf(s[10])

\* date.fromisoformat(v): TypeError when v is no str, ValueError when the
\* text is no date, the date otherwise.
FromIsoformat(v) ==
    IF v.t # "str" THEN [exc |-> "TypeError", val |-> None]
    ELSE IF ~IsoShape(v.s) THEN [exc |-> "ValueError", val |-> None]
    ELSE IF ~ValidDate(IsoYear(v.s), IsoMonth(v.s), IsoDay(v.s))
         THEN [exc |-> "ValueError", val |-> None]
    ELSE [exc |-> "none", val |-> PyDate(IsoYear(v.s), IsoMonth(v.s), IsoDay(v.s))]

\* The value date.today() had when the Account class was defined, at the
\* import of the module: the column default of date_joined.
DefaultDate == PyDate(2024, 2, 29)

\* The day after d.
NextDay(d) ==
    IF d.d < DaysInMonth(d.y, d.m) THEN PyDate(d.y, d.m, d.d + 1)
    ELSE IF d.m < 12 THEN PyDate(d.y, d.m + 1, 1)
    ELSE PyDate(d.y + 1, 1, 1)

RECURSIVE DaysAfter(_, _)
DaysAfter(d, n) == IF n = 0 THEN d ELSE DaysAfter(NextDay(d), n - 1)

-----------------------------------------------------------------------------
(* Reading a request body: data[key], data.get(key), iteration.            *)

\* data[key] with a str key.
Subscript(data, key) ==
    IF data.t = "dict"
    THEN IF key \in DOMAIN data.d
         THEN [exc |-> "none", val |-> data.d[key]]
         ELSE [exc |-> "KeyError", val |-> None]
    ELSE [exc |-> "TypeError", val |-> None]

\* data.get(key, []): an empty list where the key is absent.
GetOrEmptyList(data, key) ==
    IF data.t = "dict"
    THEN [exc |-> "none", val |-> IF key \in DOMAIN data.d THEN data.d[key] ELSE PyList(<<>>)]
    ELSE [exc |-> "AttributeError", val |-> None]

\* data.get(key): only a dict has the method.
Get(data, key) ==
    IF data.t = "dict"
    THEN [exc |-> "none", val |-> IF key \in DOMAIN data.d THEN data.d[key] ELSE None]
    ELSE [exc |-> "AttributeError", val |-> None]

\* The keys of a dict in some order, each as a str of one symbol.
RECURSIVE KeySeq(_)
KeySeq(K) ==
    IF K = {} THEN <<>>
    ELSE LET k == CHOOSE x \in K : TRUE
         IN  <<PyStr(<<k>>)>> \o KeySeq(K \ {k})
KeysOf(d) == KeySeq(DOMAIN d)

\* for item in v: the items of a list, the characters of a str, the keys of
\* a dict; None and numbers are not iterable.
Iterate(v) ==
    IF v.t = "list" THEN [exc |-> "none", items |-> v.items]
    ELSE IF v.t = "str"
    THEN [exc |-> "none", items |-> [i \in 1 .. Len(v.s) |-> PyStr(<<v.s[i]>>)]]
    ELSE IF v.t = "dict" THEN [exc |-> "none", items |-> KeysOf(v.d)]
    ELSE [exc |-> "TypeError", items |-> <<>>]

\* Translate without the except KeyError clause.
TranslateNoKeyError(exc) ==
    IF exc \in {"AttributeError", "TypeError"}
    THEN "DataValidationError"
    ELSE exc

\* The except clauses of both deserialize methods: AttributeError, KeyError
\* and TypeError become DataValidationError; anything else propagates.
Translate(exc) ==
    IF exc \in {"AttributeError", "KeyError", "TypeError"}
    THEN "DataValidationError"
    ELSE exc

-----------------------------------------------------------------------------
(* The entity classes.                                                     *)

AddressKeys == <<"account_id", "name", "street", "city", "state", "postal_code">>

\* The keys of an Account with the id among them.
AccountKeysWithId == <<"id", "name", "userid", "email">>

\* The keys Account.deserialize reads with data[key], in order.
AccountKeys == <<"name", "userid", "email">>

\* Address(): every column attribute is None, no owning Account yet.
\* st is the object's place in the session, key the primary key of its row
\* (its identity key; 0: none), account the slot of the Account object the
\* backref points at (0: none).
BlankAddress ==
    [st |-> "transient", key |-> 0, id |-> None, account_id |-> None, name |-> None,
     street |-> None, city |-> None, state |-> None, postal_code |-> None,
     account |-> 0]

\* Account(): every column attribute is None, the collection is empty.
\* addresses holds the slots of the Address objects appended in memory;
\* loaded tells whether the collection of a persistent Account was read.
BlankAccount ==
    [st |-> "transient", key |-> 0, id |-> None, name |-> None, userid |-> None,
     email |-> None, phone_number |-> None, date_joined |-> None,
     addresses |-> <<>>, loaded |-> TRUE]

\* A slot no object lives in.
NoObject == [st |-> "free"]

\* Address.serialize().
AddressSerialize(o) ==
    PyDict([id |-> o.id, account_id |-> o.account_id, name |-> o.name,
            street |-> o.street, city |-> o.city, state |-> o.state,
            postal_code |-> o.postal_code])

\* The assignments self.<key> = data[<key>], in order, up to the first that raises.
RECURSIVE AssignKeys(_, _, _)
AssignKeys(o, data, keys) ==
    IF keys = <<>> THEN [obj |-> o, exc |-> "none"]
    ELSE LET r == Subscript(data, Head(keys))
         IN  IF r.exc # "none" THEN [obj |-> o, exc |-> r.exc]
             ELSE AssignKeys([o EXCEPT ![Head(keys)] = r.val], data, Tail(keys))

\* Address.deserialize(data): the object as the call leaves it, and the
\* exception that reaches the caller.
AddressDeserialize(o, data) ==
    LET r == AssignKeys(o, data, AddressKeys)
    IN  [obj |-> r.obj, exc |-> Translate(r.exc)]

\* The loop with each new Address put in front of those before it.
RECURSIVE DeserializeEntriesReversed(_, _)
DeserializeEntriesReversed(items, done) ==
    IF items = <<>> THEN [new |-> done, exc |-> "none"]
    ELSE LET r == AddressDeserialize(BlankAddress, Head(items))
         IN  IF r.exc # "none" THEN [new |-> done, exc |-> r.exc]
             ELSE DeserializeEntriesReversed(Tail(items), <<r.obj>> \o done)

\* The loop over the addresses list: each entry is deserialized into a new
\* Address, which is appended when that succeeds; the first failure ends it.
RECURSIVE DeserializeEntries(_, _)
DeserializeEntries(items, done) ==
    IF items = <<>> THEN [new |-> done, exc |-> "none"]
    ELSE LET r == AddressDeserialize(BlankAddress, Head(items))
         IN  IF r.exc # "none" THEN [new |-> done, exc |-> r.exc]
             ELSE DeserializeEntries(Tail(items), Append(done, r.obj))

\* Account.deserialize(data): the object's scalar fields as the call leaves
\* them, the new Address objects it appended, and the exception that reaches
\* the caller.
AccountDeserialize(o, data) ==
    LET r1 == AssignKeys(o, data, AccountKeys)
        r2 == Get(data, "phone_number")
        o2 == [r1.obj EXCEPT !.phone_number = r2.val]
        r3 == Subscript(data, "date_joined")
        r4 == FromIsoformat(r3.val)
        o4 == [o2 EXCEPT !.date_joined = r4.val]
        r5 == Get(data, "addresses")
        r6 == Iterate(r5.val)
        r7 == DeserializeEntries(r6.items, <<>>)
    IN  IF r1.exc # "none" THEN [obj |-> r1.obj, new |-> <<>>, exc |-> Translate(r1.exc)]
        ELSE IF r2.exc # "none" THEN [obj |-> r1.obj, new |-> <<>>, exc |-> Translate(r2.exc)]
        ELSE IF r3.exc # "none" THEN [obj |-> o2, new |-> <<>>, exc |-> Translate(r3.exc)]
        ELSE IF r4.exc # "none" THEN [obj |-> o2, new |-> <<>>, exc |-> Translate(r4.exc)]
        ELSE IF r5.exc # "none" THEN [obj |-> o4, new |-> <<>>, exc |-> Translate(r5.exc)]
        ELSE IF r6.exc # "none" THEN [obj |-> o4, new |-> <<>>, exc |-> Translate(r6.exc)]
        ELSE [obj |-> o4, new |-> r7.new, exc |-> Translate(r7.exc)]

\* Account.serialize(): the dictionary, or the exception of
\* self.date_joined.isoformat() when date_joined holds no date.
\* addrs are the Address objects of self.addresses, in collection order.
AccountSerialize(o, addrs) ==
    IF o.date_joined.t # "date" THEN [exc |-> "AttributeError", val |-> None]
    ELSE [exc |-> "none",
          val |-> PyDict([id |-> o.id, name |-> o.name, userid |-> o.userid,
                          email |-> o.email, phone_number |-> o.phone_number,
                          date_joined |-> PyStr(Isoformat(o.date_joined)),
                          addresses |-> PyList([i \in 1 .. Len(addrs) |->
                                                    AddressSerialize(addrs[i])])])]

\* The Address objects of an Account's collection, in collection order.
CollectionOf(a) == [i \in 1 .. Len(accountObj[a].addresses) |-> addressObj[accountObj[a].addresses[i]]]

\* The n lowest slots of S, lowest first.
RECURSIVE LowestSlots(_, _)
LowestSlots(S, n) ==
    IF n = 0 \/ S = {} THEN <<>>
    ELSE LET m == CHOOSE x \in S : \A y \in S : x <= y
         IN  <<m>> \o LowestSlots(S \ {m}, n - 1)

-----------------------------------------------------------------------------
(* SpecSerde: serialize() and deserialize() on bounded inputs.             *)
(* Account object 1 is a valid Account with its Addresses; object 2 is the *)
(* Account that dictionaries are deserialized into.                        *)

\* Texts used as field values.
SBob == <<"b", "o", "b">>
SBobCap == <<"B", "o", "b">>
SUser == <<"u", "1">>
SMail == <<"b", "@", "x">>
SPhone == <<"5", "5", "5">>
SHome == <<"h", "o", "m", "e">>
SWork == <<"w", "o", "r", "k">>
SNY == <<"N", "Y">>

\* The dates of the sample Accounts.
SampleDates == {PyDate(2024, 2, 29), PyDate(2008, 12, 31), PyDate(999, 1, 9)}

\* A sample Address, as AddressFactory builds one; owner is its account_id.
SampleAddress(id, owner, label) ==
    [BlankAddress EXCEPT !.id = id, !.account_id = owner, !.name = PyStr(label),
                         !.street = PyStr(SBob), !.city = PyStr(SWork),
                         !.state = PyStr(SNY), !.postal_code = PyStr(SPhone)]

\* A dictionary without one of its keys, and with one key set.
Without(data, key) == PyDict([k \in DOMAIN data.d \ {key} |-> data.d[k]])
With(data, key, val) == PyDict([k \in DOMAIN data.d \cup {key} |-> IF k = key THEN val ELSE data.d[k]])

EmptyDict == PyDict(<<>>)
EmptyList == PyList(<<>>)

\* A well-formed Address body and a well-formed Account body.
GoodAddressBody == AddressSerialize(SampleAddress(None, PyInt(1), SHome))
GoodAccountBody ==
    PyDict([name |-> PyStr(SBob), userid |-> PyStr(SUser), email |-> PyStr(SMail),
            phone_number |-> PyStr(SPhone),
            date_joined |-> PyStr(Isoformat(PyDate(2024, 2, 29))),
            addresses |-> PyList(<<GoodAddressBody>>)])

\* Values of date_joined that are no ISO-8601 date.
BadDateValues ==
    { PyStr(<<>>), PyStr(SBob),
      PyStr(<<"2", "0", "2", "3", "-", "0", "2", "-", "2", "9">>),
      PyStr(<<"2", "0", "2", "4", "-", "1", "3", "-", "0", "1">>),
      PyStr(<<"2", "0", "2", "4", "/", "0", "1", "/", "0", "1">>),
      PyStr(<<"2", "0", "2", "4", "-", "1", "-", "1">>),
      None, PyInt(20240101) }

\* Values of addresses other than a list of well-formed entries.
OddAddressLists ==
    { None, PyInt(1), PyStr(SNY), EmptyList, EmptyDict, GoodAddressBody,
      PyList(<<EmptyDict>>), PyList(<<GoodAddressBody, EmptyList>>),
      PyList(<<GoodAddressBody, Without(GoodAddressBody, "city")>>) }

\* The bodies deserialized into an Account.
AccountBodies ==
    {EmptyDict, EmptyList, None, PyStr(SBob), PyInt(1), GoodAccountBody}
        \cup {Without(GoodAccountBody, k) : k \in DOMAIN GoodAccountBody.d}
        \cup {With(GoodAccountBody, "date_joined", v) : v \in BadDateValues}
        \cup {With(GoodAccountBody, "addresses", v) : v \in OddAddressLists}
        \cup {With(GoodAccountBody, "id", PyInt(2))}

\* The bodies deserialized into an Account that was deserialized into before.
TwoAddressBody ==
    With(GoodAccountBody, "addresses",
         PyList(<<AddressSerialize(SampleAddress(None, PyInt(1), SWork)), GoodAddressBody>>))
RepeatBodies ==
    { GoodAccountBody, TwoAddressBody, EmptyDict, Without(GoodAccountBody, "addresses"),
      With(GoodAccountBody, "addresses", PyList(<<GoodAddressBody, EmptyList>>)) }

\* The bodies deserialized into an Address.
AddressBodies ==
    {EmptyDict, EmptyList, None, PyStr(SBob), PyInt(1), GoodAddressBody}
        \cup {Without(GoodAddressBody, k) : k \in DOMAIN GoodAddressBody.d}
        \cup {With(GoodAddressBody, "account_id", None)}

NoCall == [op |-> "none"]

\* A request slot no request is using.
Idle == [op |-> "idle"]
NoRequests == [r \in AccountSlots |-> Idle]

\* The source Account as a factory builds it, in memory only: zero or more
\* Addresses, with or without the ids the factories number their objects
\* with, with or without a phone number.
InitSerde ==
    /\ accountTable = <<>> /\ addressTable = <<>>
    /\ accountSeq = 0 /\ addressSeq = 0
    /\ steps = 0 /\ request = NoRequests /\ today = DefaultDate
    /\ pending = <<>>
    /\ wire = None
    /\ last = NoCall
    /\ \E n \in 0 .. MaxAddressObjs, id \in {None, PyInt(1)}, phone \in {None, PyStr(SPhone)},
          date \in SampleDates :
        /\ accountObj =
             [a \in AccountSlots |->
                 IF a = 1
                 THEN [BlankAccount EXCEPT !.id = id, !.name = PyStr(SBob),
                                           !.userid = PyStr(SUser), !.email = PyStr(SMail),
                                           !.phone_number = phone, !.date_joined = date,
                                           !.addresses = [i \in 1 .. n |-> i]]
                 ELSE NoObject]
        /\ addressObj =
             [d \in 1 .. 2 * MaxAddressObjs |->
                 IF d <= n
                 THEN [SampleAddress(IF IsNone(id) THEN None ELSE PyInt(d), id,
                                     IF d = 1 THEN SHome ELSE SWork)
                          EXCEPT !.account = 1]
                 ELSE NoObject]

\* account.serialize()
SdSerialize(a) ==
    /\ accountObj[a].st # "free"
    /\ LET r == AccountSerialize(accountObj[a], CollectionOf(a))
       IN  /\ wire' = (IF r.exc = "none" THEN r.val ELSE wire)
           /\ last' = [op |-> "Account.serialize", target |-> a, exc |-> r.exc]
    /\ UNCHANGED <<accountTable, addressTable, accountSeq, addressSeq,
                   accountObj, addressObj, pending, steps, request, today>>

\* address.serialize()
SdAddressSerialize(d) ==
    /\ addressObj[d].st # "free"
    /\ addressObj[d].account = 1
    /\ wire' = AddressSerialize(addressObj[d])
    /\ last' = [op |-> "Address.serialize", target |-> d, exc |-> "none"]
    /\ UNCHANGED <<accountTable, addressTable, accountSeq, addressSeq,
                   accountObj, addressObj, pending, steps, request, today>>

\* The Address objects after the new Addresses of a deserialize call on
\* Account a were placed in the lowest of the free slots; the other free
\* slots hold nothing.
PlaceAddresses(a, new, free) ==
    LET slots == LowestSlots(free, Len(new))
    IN  [d \in DOMAIN addressObj |->
            IF \E i \in 1 .. Len(slots) : slots[i] = d
            THEN [new[CHOOSE i \in 1 .. Len(slots) : slots[i] = d] EXCEPT !.account = a]
            ELSE IF d \in free THEN NoObject ELSE addressObj[d]]

\* The slots an Address object can be placed in: the empty ones, and those
\* of objects nothing refers to any more (the Account deserialized into
\* before with its Addresses, an Address deserialized on its own).
SdFree ==
    {d \in DOMAIN addressObj : addressObj[d].st = "free" \/ addressObj[d].account # 1}

\* new_account = Account(); new_account.deserialize(data)
SdDeserializeNew(data) ==
    LET res == AccountDeserialize(BlankAccount, data)
    IN  /\ Len(res.new) <= Cardinality(SdFree)
        /\ accountObj' = [accountObj EXCEPT ![2] =
                             [res.obj EXCEPT !.addresses = LowestSlots(SdFree, Len(res.new))]]
        /\ addressObj' = PlaceAddresses(2, res.new, SdFree)
        /\ last' = [op |-> "Account.deserialize", target |-> 2, exc |-> res.exc,
                    data |-> data, fresh |-> TRUE]
        /\ UNCHANGED <<accountTable, addressTable, accountSeq, addressSeq, pending, wire,
                     steps, request, today>>

\* The slots no Address object lives in.
SdEmpty == {d \in DOMAIN addressObj : addressObj[d].st = "free"}

\* new_account.deserialize(data) once more, on the Account that was
\* deserialized into before: the new Addresses join those it holds.
SdDeserializeInto(data) ==
    LET res == AccountDeserialize(accountObj[2], data)
    IN  /\ accountObj[2].st # "free"
        /\ Len(res.new) <= Cardinality(SdEmpty)
        /\ accountObj' = [accountObj EXCEPT ![2] =
                             [res.obj EXCEPT !.addresses =
                                 accountObj[2].addresses \o LowestSlots(SdEmpty, Len(res.new))]]
        /\ addressObj' = PlaceAddresses(2, res.new, SdEmpty)
        /\ last' = [op |-> "Account.deserialize", target |-> 2, exc |-> res.exc,
                    data |-> data, fresh |-> FALSE]
        /\ UNCHANGED <<accountTable, addressTable, accountSeq, addressSeq, pending, wire,
                     steps, request, today>>

\* new_address = Address(); new_address.deserialize(data)
SdAddressDeserializeNew(data) ==
    LET res == AddressDeserialize(BlankAddress, data)
        d == CHOOSE x \in SdFree : \A y \in SdFree : x <= y
    IN  /\ SdFree # {}
        /\ accountObj' = [accountObj EXCEPT ![2] = NoObject]
        /\ addressObj' = [x \in DOMAIN addressObj |->
                             IF x = d THEN res.obj
                             ELSE IF x \in SdFree THEN NoObject ELSE addressObj[x]]
        /\ last' = [op |-> "Address.deserialize", target |-> d, exc |-> res.exc,
                    data |-> data, fresh |-> TRUE]
        /\ UNCHANGED <<accountTable, addressTable, accountSeq, addressSeq, pending, wire,
                     steps, request, today>>

NextSerde ==
    \/ SdSerialize(1)
    \/ \E d \in 1 .. MaxAddressObjs : SdAddressSerialize(d)
    \/ \E data \in AccountBodies \cup {wire} : SdDeserializeNew(data)
    \/ \E data \in RepeatBodies \cup {wire} : SdDeserializeInto(data)
    \/ \E data \in AddressBodies \cup {wire} : SdAddressDeserializeNew(data)

SpecSerde == InitSerde /\ [][NextSerde]_vars

-----------------------------------------------------------------------------
(* Claims on serialize / deserialize, checked under SpecSerde.             *)

SameAccountScalars(x, y) ==
    /\ x.name = y.name /\ x.userid = y.userid /\ x.email = y.email
    /\ x.phone_number = y.phone_number /\ x.date_joined = y.date_joined

SameAddressScalars(x, y) ==
    /\ x.account_id = y.account_id /\ x.name = y.name /\ x.street = y.street
    /\ x.city = y.city /\ x.state = y.state /\ x.postal_code = y.postal_code

\* The last call deserialized serialize(Account 1) into a new Account.
AccountRoundTrip ==
    /\ last.op = "Account.deserialize" /\ last.fresh
    /\ last.data = AccountSerialize(accountObj[1], CollectionOf(1)).val

\* The last call deserialized serialize(d), d an Address of Account 1, into
\* a new Address.
AddressRoundTrip(d) ==
    /\ last.op = "Address.deserialize" /\ last.fresh
    /\ d # last.target
    /\ addressObj[d].st # "free" /\ addressObj[d].account = 1
    /\ last.data = AddressSerialize(addressObj[d])

C6_EmptyBodyRejected ==
    (/\ last.op \in {"Account.deserialize", "Address.deserialize"}
     /\ last.fresh
     /\ last.data \in {EmptyDict, EmptyList})
        => last.exc = "DataValidationError"

\* {} was deserialized into a new Account.
C6_Witness ==
    /\ last.op = "Account.deserialize" /\ last.fresh
    /\ last.data = EmptyDict
    /\ last.exc = "DataValidationError"

\* The body is a dictionary whose date_joined is absent or is no
\* well-formed ISO-8601 date string.
BadDateBody(data) ==
    /\ data.t = "dict"
    /\ \/ "date_joined" \notin DOMAIN data.d
       \/ FromIsoformat(data.d["date_joined"]).exc # "none"

\* C7 as stated: Account.deserialize of a dictionary whose date_joined is
\* absent or malformed fails with DataValidationError, never with another
\* exception.
C7_BadDateRejected ==
    (last.op = "Account.deserialize" /\ BadDateBody(last.data))
        => last.exc = "DataValidationError"

\* The entries of the addresses list of a body, in the order given.
EntriesOf(data) == Iterate(Get(data, "addresses").val).items

\* Address object o carries the values of entry e.
CarriesEntry(o, e) ==
    /\ o.account_id = e.d["account_id"] /\ o.name = e.d["name"]
    /\ o.street = e.d["street"] /\ o.city = e.d["city"]
    /\ o.state = e.d["state"] /\ o.postal_code = e.d["postal_code"]

\* A successful Account.deserialize leaves one new Address per entry of the
\* addresses list at the end of the collection, in the order of the list.
EntriesAppendedInOrder ==
    (last.op = "Account.deserialize" /\ last.exc = "none") =>
        LET coll == CollectionOf(2)
            entries == EntriesOf(last.data)
            held == Len(coll) - Len(entries)
        IN  /\ held >= 0
            /\ last.fresh => held = 0
            /\ \A i \in 1 .. Len(entries) : CarriesEntry(coll[held + i], entries[i])
            /\ \A i \in 1 .. Len(coll) : coll[i].account = 2

\* Account.deserialize on an Account that holds Addresses keeps them, as
\* they are, at the front of the collection.
HeldAddressesStayInFront ==
    (last'.op = "Account.deserialize" /\ ~last'.fresh /\ accountObj[2].st # "free") =>
        LET before == accountObj[2].addresses
            after == accountObj'[2].addresses
        IN  /\ Len(after) >= Len(before)
            /\ SubSeq(after, 1, Len(before)) = before
            /\ \A i \in 1 .. Len(before) : addressObj'[before[i]] = addressObj[before[i]]

\* serialize() lists the Addresses in the order of the collection.
SerializedInCollectionOrder ==
    (last.op = "Account.serialize" /\ last.exc = "none") =>
        LET coll == CollectionOf(last.target)
            listed == wire.d["addresses"].items
        IN  /\ Len(listed) = Len(coll)
            /\ \A i \in 1 .. Len(coll) : listed[i] = AddressSerialize(coll[i])

\* C15: address order.  A successful Account.deserialize leaves, after the
\* Addresses the collection held before, one new Address per entry of the
\* addresses list, in the order of the list; serialize() lists the
\* Addresses in the order of the collection.
C15_AddressOrder ==
    /\ [](EntriesAppendedInOrder /\ SerializedInCollectionOrder)
    /\ [][HeldAddressesStayInFront]_vars

\* An Account that held an Address was deserialized into from a body of
\* two different entries: three Addresses, the old one first.
C15_Witness ==
    /\ last.op = "Account.deserialize" /\ last.exc = "none" /\ ~last.fresh
    /\ last.data = TwoAddressBody
    /\ Len(accountObj[2].addresses) = 3
    /\ CollectionOf(2)[1].name = PyStr(SHome)
    /\ CollectionOf(2)[2].name = PyStr(SWork)
    /\ CollectionOf(2)[3].name = PyStr(SHome)

\* The body is a dictionary that holds name, userid, email and a
\* well-formed date_joined.
HoldsRequiredKeys(data) ==
    /\ data.t = "dict"
    /\ {"name", "userid", "email", "date_joined"} \subseteq DOMAIN data.d
    /\ FromIsoformat(data.d["date_joined"]).exc = "none"

\* C26 as stated: Account.deserialize of a dictionary with every required
\* key raises DataValidationError when it has no addresses key, and
\* succeeds only when addresses is present as a list.
C26_AddressesMustBeList ==
    (last.op = "Account.deserialize" /\ HoldsRequiredKeys(last.data)) =>
        /\ "addresses" \notin DOMAIN last.data.d => last.exc = "DataValidationError"
        /\ last.exc = "none" =>
              /\ "addresses" \in DOMAIN last.data.d
              /\ last.data.d["addresses"].t = "list"

\* C26 amended: the call raises DataValidationError when the addresses key
\* is absent or null, and succeeds only when addresses is present and is a
\* list of well-formed entries or an empty dictionary or string.
C26_AddressesMustBeIterable ==
    (last.op = "Account.deserialize" /\ HoldsRequiredKeys(last.data)) =>
        /\ ( \/ "addresses" \notin DOMAIN last.data.d
             \/ IsNone(last.data.d["addresses"]) ) => last.exc = "DataValidationError"
        /\ last.exc = "none" =>
              /\ "addresses" \in DOMAIN last.data.d
              /\ \/ last.data.d["addresses"].t = "list"
                 \/ last.data.d["addresses"] \in {EmptyDict, PyStr(<<>>)}

\* A body with every required key and no addresses key was refused.
C26_Witness ==
    /\ last.op = "Account.deserialize"
    /\ last.data = Without(GoodAccountBody, "addresses")
    /\ last.exc = "DataValidationError"

\* C27: deserialize is all-or-nothing.  When deserialize into a new Account
\* or a new Address raises DataValidationError, the entity is as it was
\* before the call: no scalar field is set and no Address is in the
\* collection.
C27_DeserializeAllOrNothing ==
    /\ ( /\ last.op = "Account.deserialize" /\ last.fresh
         /\ last.exc = "DataValidationError" )
       => /\ SameAccountScalars(accountObj[2], BlankAccount)
          /\ accountObj[2].addresses = <<>>
    /\ ( /\ last.op = "Address.deserialize" /\ last.fresh
         /\ last.exc = "DataValidationError" )
       => SameAddressScalars(addressObj[last.target], BlankAddress)

\* A failed Account.deserialize left an Address in the collection: the
\* entry before the failing one.
C27_PartialCollection ==
    /\ last.op = "Account.deserialize" /\ last.fresh
    /\ last.exc = "DataValidationError"
    /\ Len(accountObj[2].addresses) = 1

\* C28: deserialize never touches identity.  Account.deserialize and
\* Address.deserialize leave the id of the entity as it was, whatever id the
\* dictionary carries: a new entity keeps id = None, and so do the Addresses
\* made from the entries of the addresses list; an entity that has an id
\* keeps it.
C28_IdUntouched ==
    /\ last.op = "Account.deserialize" =>
          /\ accountObj[2].id = None
          /\ \A i \in 1 .. Len(accountObj[2].addresses) : CollectionOf(2)[i].id = None
    /\ (last.op = "Address.deserialize" /\ last.fresh) => addressObj[last.target].id = None
    /\ \A data \in AccountBodies \cup {wire} :
          AccountDeserialize(accountObj[1], data).obj.id = accountObj[1].id
    /\ \A d \in DOMAIN addressObj, data \in AddressBodies \cup {wire} :
          (addressObj[d].st # "free" /\ addressObj[d].account = 1)
              => AddressDeserialize(addressObj[d], data).obj.id = addressObj[d].id

\* A body that carries an id was deserialized into a new Account, while
\* the dictionary of an Account with an id of its own is at hand.
C28_Witness ==
    /\ last.op = "Account.deserialize" /\ last.fresh /\ last.exc = "none"
    /\ "id" \in DOMAIN last.data.d /\ last.data.d["id"] = PyInt(2)
    /\ accountObj[2].id = None
    /\ accountObj[1].id = PyInt(1)

-----------------------------------------------------------------------------
(* The tables account and address, with the constraints the schema         *)
(* declares.  A db value is a transaction's view: the rows and the two id  *)
(* sequences.                                                              *)

\* String(n) column lengths.
NameLen == 64
UseridLen == 16
EmailLen == 64
PhoneLen == 32
StreetLen == 64
CityLen == 64
StateLen == 2
PostalLen == 16

\* A String(n) column takes a str of at most n characters; NULL when nullable.
FitsString(v, n, nullable) ==
    \/ nullable /\ v.t = "none"
    \/ v.t = "str" /\ Len(v.s) <= n

\* The row an Account object is written as: date_joined takes the column
\* default when the object holds None for it (insert only).
AccountRow(o, inserting) ==
    [name |-> o.name, userid |-> o.userid, email |-> o.email,
     phone_number |-> o.phone_number,
     date_joined |-> IF inserting /\ IsNone(o.date_joined) THEN DefaultDate
                     ELSE o.date_joined]

AddressRow(o, owner) ==
    [account_id |-> owner, name |-> o.name, street |-> o.street, city |-> o.city,
     state |-> o.state, postal_code |-> o.postal_code]

\* The constraints of table account.
AccountRowOk(row) ==
    /\ FitsString(row.name, NameLen, FALSE)
    /\ FitsString(row.userid, UseridLen, FALSE)
    /\ FitsString(row.email, EmailLen, FALSE)
    /\ FitsString(row.phone_number, PhoneLen, TRUE)
    /\ row.date_joined.t = "date"

\* The foreign key of address.account_id, without the reference to account.id.
OwnerOkNoForeignKey(db, owner) == owner.t = "int"

\* address.account_id: NOT NULL, a foreign key to account.id.
OwnerOk(db, owner) ==
    /\ owner.t = "int"
    /\ owner.i \in DOMAIN db.account

\* The constraints of table address.
AddressRowOk(db, row) ==
    /\ OwnerOk(db, row.account_id)
    /\ FitsString(row.name, NameLen, TRUE)
    /\ FitsString(row.street, StreetLen, TRUE)
    /\ FitsString(row.city, CityLen, TRUE)
    /\ FitsString(row.state, StateLen, TRUE)
    /\ FitsString(row.postal_code, PostalLen, TRUE)

\* An INSERT or UPDATE that writes nothing.
PutNothing(table, id, row) == table

\* A table with row id set, and without the rows of ids.
Put(table, id, row) == [i \in DOMAIN table \cup {id} |-> IF i = id THEN row ELSE table[i]]
Drop(table, ids) == [i \in DOMAIN table \ ids |-> table[i]]

\* nextval() of an id sequence computed as the highest stored id plus one.
NextValFromRows(seq, table) ==
    IF DOMAIN table = {} THEN 1
    ELSE (CHOOSE i \in DOMAIN table : \A j \in DOMAIN table : j <= i) + 1

\* nextval() of an id sequence: the sequence only moves forward, whatever
\* becomes of the rows.
NextVal(seq, table) == seq + 1

\* The ids of the address rows owned by account id.
OwnedBy(db, id) == {i \in DOMAIN db.address : db.address[i].account_id = PyInt(id)}

\* DELETE FROM account WHERE id = ...: the address rows that reference the
\* account go with it (ondelete="CASCADE").
DeleteAccountRow(db, id) ==
    [db EXCEPT !.account = Drop(db.account, {id}),
               !.address = Drop(db.address, OwnedBy(db, id))]

\* A DELETE that leaves the row in place.
DeleteAddressRowKeepsRow(db, id) == db

\* DELETE FROM address WHERE id = ...
DeleteAddressRow(db, id) == [db EXCEPT !.address = Drop(db.address, {id})]

\* The committed database.
Committed ==
    [account |-> accountTable, address |-> addressTable,
     aseq |-> accountSeq, dseq |-> addressSeq]

-----------------------------------------------------------------------------
(* The session: db.session.add / delete / commit / rollback on the objects *)
(* of one session.  An object is transient (not in the session), pending   *)
(* (added, not yet inserted), persistent (has its row), deleted (its row   *)
(* was deleted through it) or stale (its row went with a cascade).         *)

InSession(o) == o.st \in {"pending", "persistent"}

\* A set of numbers in increasing order.
RECURSIVE Sorted(_)
Sorted(S) ==
    IF S = {} THEN <<>>
    ELSE LET m == CHOOSE x \in S : \A y \in S : x <= y
         IN  <<m>> \o Sorted(S \ {m})

SeqToSet(q) == {q[i] : i \in 1 .. Len(q)}

\* A flush that writes the account_id attribute as the body set it.
OwnerOfAttribute(aobj, dobj, d, del) == dobj[d].account_id

\* The value written to account_id of Address object d: the id of the
\* Account object the relationship points at when that object is in the
\* session, NULL when that Account is the one being deleted and d is in its
\* loaded collection, the attribute of d otherwise.
OwnerOf(aobj, dobj, d, del) ==
    LET a == dobj[d].account
    IN  IF a # 0 /\ del = [cls |-> "Account", o |-> a] /\ aobj[a].loaded THEN None
        ELSE IF a # 0 /\ InSession(aobj[a]) /\ dobj[d].st = "pending" THEN aobj[a].id
        ELSE dobj[d].account_id

\* The in-memory state of a persistent object differs from its row.
AccountDirty(db, o) ==
    /\ o.st = "persistent"
    /\ \/ o.id # PyInt(o.key)
       \/ o.key \notin DOMAIN db.account
       \/ db.account[o.key] # AccountRow(o, FALSE)

\* A session that never finds an Address changed.
AddressNeverDirty(db, o) == FALSE

\* The in-memory state of a persistent Address differs from its row.
AddressDirty(db, o) ==
    /\ o.st = "persistent"
    /\ \/ o.id # PyInt(o.key)
       \/ o.key \notin DOMAIN db.address
       \/ db.address[o.key] # AddressRow(o, o.account_id)

\* The row an object was loaded with, as far as the session knows: in a
\* session that is alone on the database, the stored row.
BaseRow(table, key) == IF key \in DOMAIN table THEN table[key] ELSE <<>>

\* An UPDATE sets the columns whose attribute changed since the object was
\* loaded (base) and leaves the others as stored (cur).
Merge(cur, base, new) == [f \in DOMAIN new |-> IF new[f] # base[f] THEN new[f] ELSE cur[f]]

\* The statements of a flush, in the order the unit of work issues them:
\* accounts inserted and updated, addresses inserted and updated (the
\* loaded children of an Account being deleted get account_id = NULL), then
\* the DELETE of the object being deleted.  del is that object, or NoTarget.
NoTarget == [cls |-> "none", o |-> 0]

FlushPlan(db, aobj, dobj, pend, del) ==
    LET accIns == SelectSeq(Sorted(DOMAIN aobj), LAMBDA a : aobj[a].st = "pending")
        accUpd == SelectSeq(Sorted(DOMAIN aobj),
                            LAMBDA a : AccountDirty(db, aobj[a])
                                       /\ del # [cls |-> "Account", o |-> a])
        adrUpd == SelectSeq(Sorted(DOMAIN dobj),
                            LAMBDA d : AddressDirty(db, dobj[d])
                                       /\ del # [cls |-> "Address", o |-> d])
        nulled == IF del.cls = "Account" /\ aobj[del.o].loaded
                  THEN SelectSeq(aobj[del.o].addresses,
                                 LAMBDA d : dobj[d].st = "persistent")
                  ELSE <<>>
    IN  [i \in 1 .. Len(accIns) |-> [k |-> "insertAccount", o |-> accIns[i]]]
        \o [i \in 1 .. Len(accUpd) |->
               [k |-> "updateAccount", o |-> accUpd[i],
                base |-> BaseRow(db.account, aobj[accUpd[i]].key)]]
        \o [i \in 1 .. Len(pend) |-> [k |-> "insertAddress", o |-> pend[i]]]
        \o [i \in 1 .. Len(adrUpd) |->
               [k |-> "updateAddress", o |-> adrUpd[i],
                base |-> BaseRow(db.address, dobj[adrUpd[i]].key)]]
        \o [i \in 1 .. Len(nulled) |-> [k |-> "nullOwner", o |-> nulled[i]]]
        \o (IF del.cls = "Address" THEN <<[k |-> "deleteAddress", o |-> del.o]>>
            ELSE IF del.cls = "Account" THEN <<[k |-> "deleteAccount", o |-> del.o]>>
            ELSE <<>>)

\* One statement of a flush on the working state w = [db, aobj, dobj, ok];
\* a violated constraint clears ok, and so does an UPDATE that matches no
\* row, or one of an object whose id attribute no longer is its primary key
\* (create() on a persistent object sets it to None).  An INSERT takes its id from the
\* sequence first, so a failed INSERT consumes the id.
Exec(w, stmt, del) ==
    LET o == stmt.o
    IN  CASE stmt.k = "insertAccount" ->
               LET id == NextVal(w.db.aseq, w.db.account)
                   row == AccountRow(w.aobj[o], TRUE)
               IN  IF AccountRowOk(row)
                   THEN [w EXCEPT !.db.aseq = id, !.db.account = Put(@, id, row),
                                  !.aobj[o].id = PyInt(id)]
                   ELSE [w EXCEPT !.db.aseq = id, !.ok = FALSE]
          [] stmt.k = "updateAccount" ->
               IF /\ w.aobj[o].id = PyInt(w.aobj[o].key)
                  /\ w.aobj[o].key \in DOMAIN w.db.account
                  /\ AccountRowOk(Merge(w.db.account[w.aobj[o].key], stmt.base,
                                        AccountRow(w.aobj[o], FALSE)))
               THEN [w EXCEPT !.db.account =
                         Put(@, w.aobj[o].key,
                             Merge(@[w.aobj[o].key], stmt.base, AccountRow(w.aobj[o], FALSE)))]
               ELSE [w EXCEPT !.ok = FALSE]
          [] stmt.k = "insertAddress" ->
               LET id == NextVal(w.db.dseq, w.db.address)
                   row == AddressRow(w.dobj[o], OwnerOf(w.aobj, w.dobj, o, del))
               IN  IF AddressRowOk(w.db, row)
                   THEN [w EXCEPT !.db.dseq = id, !.db.address = Put(@, id, row),
                                  !.dobj[o].id = PyInt(id)]
                   ELSE [w EXCEPT !.db.dseq = id, !.ok = FALSE]
          [] stmt.k = "updateAddress" ->
               IF /\ w.dobj[o].id = PyInt(w.dobj[o].key)
                  /\ w.dobj[o].key \in DOMAIN w.db.address
                  /\ AddressRowOk(w.db,
                                  Merge(w.db.address[w.dobj[o].key], stmt.base,
                                        AddressRow(w.dobj[o], OwnerOf(w.aobj, w.dobj, o, del))))
               THEN [w EXCEPT !.db.address =
                         Put(@, w.dobj[o].key,
                             Merge(@[w.dobj[o].key], stmt.base,
                                   AddressRow(w.dobj[o], OwnerOf(w.aobj, w.dobj, o, del))))]
               ELSE [w EXCEPT !.ok = FALSE]
          [] stmt.k = "nullOwner" ->
               LET row == AddressRow(w.dobj[o], None)
               IN  IF AddressRowOk(w.db, row)
                   THEN [w EXCEPT !.db.address = Put(@, w.dobj[o].key, row)]
                   ELSE [w EXCEPT !.ok = FALSE]
          [] stmt.k = "deleteAddress" ->
               [w EXCEPT !.db = DeleteAddressRow(@, w.dobj[o].key)]
          [] stmt.k = "deleteAccount" ->
               [w EXCEPT !.db = DeleteAccountRow(@, w.aobj[o].key)]

RECURSIVE RunPlan(_, _, _)
RunPlan(w, plan, del) ==
    IF plan = <<>> \/ ~w.ok THEN w
    ELSE RunPlan(Exec(w, Head(plan), del), Tail(plan), del)

\* session.flush(): the working state after the statements of the plan.
Flush(aobj, dobj, pend, del) ==
    RunPlan([db |-> Committed, aobj |-> aobj, dobj |-> dobj, ok |-> TRUE],
            FlushPlan(Committed, aobj, dobj, pend, del), del)

\* The objects after the session expired them and they were read again
\* from db: a persistent object takes the values of its row, an Account's
\* collection holds the objects of the rows that reference it, in id order,
\* and counts as not loaded; an object whose row is gone is stale.
ReloadAccount(o, dobj, db) ==
    IF o.st # "persistent" THEN o
    ELSE IF o.key \notin DOMAIN db.account THEN [o EXCEPT !.st = "stale"]
    ELSE LET row == db.account[o.key]
             owned == {d \in DOMAIN dobj : /\ dobj[d].st = "persistent"
                                            /\ dobj[d].key \in OwnedBy(db, o.key)}
             byId == Sorted({dobj[d].key : d \in owned})
         IN  [o EXCEPT !.id = PyInt(o.key), !.name = row.name, !.userid = row.userid,
                       !.email = row.email, !.phone_number = row.phone_number,
                       !.date_joined = row.date_joined,
                       !.addresses = [i \in 1 .. Len(byId) |->
                                         CHOOSE d \in owned : dobj[d].key = byId[i]],
                       !.loaded = FALSE]

ReloadAddress(o, aobj, db) ==
    IF o.st # "persistent" THEN o
    ELSE IF o.key \notin DOMAIN db.address THEN [o EXCEPT !.st = "stale"]
    ELSE LET row == db.address[o.key]
             owners == {a \in DOMAIN aobj : /\ aobj[a].st = "persistent"
                                             /\ PyInt(aobj[a].key) = row.account_id}
         IN  [o EXCEPT !.id = PyInt(o.key), !.account_id = row.account_id,
                       !.name = row.name, !.street = row.street, !.city = row.city,
                       !.state = row.state, !.postal_code = row.postal_code,
                       !.account = IF owners = {} THEN 0 ELSE CHOOSE a \in owners : TRUE]

\* db.session.rollback() as a commit of what the flush wrote so far.
RollbackKeepsWrites(before, w) == w.db

\* db.session.rollback(): the rows are those before the transaction; the
\* ids the sequences handed out are not given back.
Rollback(before, w) == [before EXCEPT !.aseq = w.db.aseq, !.dseq = w.db.dseq]

\* The objects a flush w leaves when the transaction ends: on success
\* pending objects are persistent and the deleted object leaves the session;
\* on failure pending objects are transient again, keeping the id an INSERT
\* of theirs was given.
SettledAccounts(w, del) ==
    [a \in DOMAIN w.aobj |->
        IF w.aobj[a].st = "pending"
        THEN IF w.ok THEN [w.aobj[a] EXCEPT !.st = "persistent", !.key = w.aobj[a].id.i]
             ELSE [w.aobj[a] EXCEPT !.st = "transient"]
        ELSE IF w.ok /\ del = [cls |-> "Account", o |-> a]
             THEN [w.aobj[a] EXCEPT !.st = "deleted", !.loaded = FALSE]
        ELSE w.aobj[a]]

SettledAddresses(w, del) ==
    [d \in DOMAIN w.dobj |->
        IF w.dobj[d].st = "pending"
        THEN IF w.ok THEN [w.dobj[d] EXCEPT !.st = "persistent", !.key = w.dobj[d].id.i]
             ELSE [w.dobj[d] EXCEPT !.st = "transient"]
        ELSE IF w.ok /\ del = [cls |-> "Address", o |-> d]
             THEN [w.dobj[d] EXCEPT !.st = "deleted"]
        ELSE w.dobj[d]]

\* The end of a transaction expires every object of the session: the
\* result of a commit with the objects read again from db.
ExpiredAccounts(ok, db, aobj, dobj) ==
    [ok |-> ok, db |-> db, dobj |-> dobj,
     aobj |-> [a \in DOMAIN aobj |-> ReloadAccount(aobj[a], dobj, db)]]

Expired(ok, db, aobj, dobj) ==
    ExpiredAccounts(ok, db, aobj, [d \in DOMAIN dobj |-> ReloadAddress(dobj[d], aobj, db)])

\* The transaction of flush w ends: committed when the flush succeeded,
\* rolled back by the caller's except clause when it raised.
EndTransaction(before, w, del) ==
    Expired(w.ok, IF w.ok THEN w.db ELSE Rollback(before, w),
            SettledAccounts(w, del), SettledAddresses(w, del))

\* db.session.commit() on the objects aobj, dobj with pend pending and del
\* marked for deletion, followed by db.session.rollback() when it raised:
\* the database and the objects left.  injected stands for a commit that
\* raises whatever the session holds (the tests patch commit to raise).
Commit(aobj, dobj, pend, del, injected) ==
    EndTransaction(Committed,
                   IF injected
                   THEN [db |-> Committed, aobj |-> aobj, dobj |-> dobj, ok |-> FALSE]
                   ELSE Flush(aobj, dobj, pend, del),
                   del)

-----------------------------------------------------------------------------
(* PersistentBase: create(), update(), delete(), find(), all(), and        *)
(* Account.find_by_name().                                                 *)

\* db.session.add(obj) with the save-update cascade along addresses and its
\* backref: obj and the transient objects reachable from it become pending.
AddCascade(aobj, dobj, pend, cls, o) ==
    LET a == IF cls = "Account" THEN o ELSE dobj[o].account
        root == IF cls = "Address" /\ dobj[o].st = "transient" THEN <<o>> ELSE <<>>
        takeA == a # 0 /\ aobj[a].st = "transient"
        reach == IF a # 0 /\ (takeA \/ aobj[a].st = "pending")
                 THEN SelectSeq(aobj[a].addresses,
                                LAMBDA d : dobj[d].st = "transient" /\ d \notin SeqToSet(root))
                 ELSE <<>>
        new == root \o reach
    IN  [aobj |-> [x \in DOMAIN aobj |->
                      IF x = a /\ takeA THEN [aobj[x] EXCEPT !.st = "pending"] ELSE aobj[x]],
         dobj |-> [d \in DOMAIN dobj |->
                      IF d \in SeqToSet(new) THEN [dobj[d] EXCEPT !.st = "pending"] ELSE dobj[d]],
         pend |-> pend \o new]

\* The objects of a class, and one object with a field set.
ObjOf(cls, o) == IF cls = "Account" THEN accountObj[o] ELSE addressObj[o]
WithId(objs, o, v) == [objs EXCEPT ![o].id = v]

\* What a call records for the claims: the operation, its target, the
\* exception it raised, whether commit() was called and raised, whether the
\* provider was failing, the target as it was at the call, and the rows
\* stored before it.
Call(op, cls, o, exc, commit, injected) ==
    [op |-> op, cls |-> cls, o |-> o, exc |-> exc, commit |-> commit,
     injected |-> injected,
     was |-> ObjOf(cls, o),
     before |-> [account |-> accountTable, address |-> addressTable]]

\* The next state after a commit (or a rollback) left res.
Store(res) ==
    /\ accountTable' = res.db.account
    /\ addressTable' = res.db.address
    /\ accountSeq' = res.db.aseq
    /\ addressSeq' = res.db.dseq
    /\ accountObj' = res.aobj
    /\ addressObj' = res.dobj
    /\ pending' = <<>>

\* One more operation of the run, on the same day.
Tick == steps < MaxSteps /\ steps' = steps + 1 /\ today' = today

\* The ids a flush may need stay within the sequences' bound.
SeqRoom(aobj, pend) ==
    /\ accountSeq + Cardinality({a \in DOMAIN aobj : aobj[a].st = "pending"}) <= MaxId
    /\ addressSeq + Len(pend) <= MaxId

\* update() without the test of self.id.
EmptyIdNeverChecked(id) == FALSE

\* update(): `if not self.id`.
EmptyId(id) == Falsy(id)

\* The call returns or raises after its commit left res; called tells
\* whether commit() was reached.
Finish(op, cls, o, res, called, injected) ==
    /\ Store(res)
    /\ last' = Call(op, cls, o,
                    IF res.ok THEN "none" ELSE "DataValidationError",
                    IF ~called THEN "none" ELSE IF res.ok THEN "ok" ELSE "raised",
                    injected)
    /\ Tick
    /\ UNCHANGED <<wire, request>>

\* The call raises exc before it touches the session.
Refuse(op, cls, o, exc, injected) ==
    /\ last' = Call(op, cls, o, exc, "none", injected)
    /\ Tick
    /\ UNCHANGED <<accountTable, addressTable, accountSeq, addressSeq,
                   accountObj, addressObj, pending, wire, request>>

\* create() after db.session.add(self) made the objects of added pending.
CreateAdded(cls, o, injected, gone, added) ==
    /\ SeqRoom(added.aobj, added.pend)
    /\ Finish("create", cls, o,
              Commit(added.aobj, added.dobj, added.pend, NoTarget, injected \/ gone),
              ~gone, injected)

\* obj.create(): self.id = None; add; commit; on any exception rollback and
\* raise DataValidationError.  An object whose row was deleted cannot be
\* saved again: the session refuses it.
Create(cls, o, injected) ==
    /\ ObjOf(cls, o).st # "free"
    /\ CreateAdded(cls, o, injected, ObjOf(cls, o).st \in {"deleted", "stale"},
                   AddCascade(IF cls = "Account" THEN WithId(accountObj, o, None)
                              ELSE accountObj,
                              IF cls = "Address" THEN WithId(addressObj, o, None)
                              ELSE addressObj,
                              pending, cls, o))

\* obj.update(): DataValidationError when self.id is empty; else commit, and
\* on any exception rollback and raise DataValidationError.  Reading self.id
\* of an object whose row went with a cascade raises ObjectDeletedError.
Update(cls, o, injected) ==
    /\ ObjOf(cls, o).st # "free"
    /\ SeqRoom(accountObj, pending)
    /\ IF ObjOf(cls, o).st = "stale"
       THEN Refuse("update", cls, o, "ObjectDeletedError", injected)
       ELSE IF EmptyId(ObjOf(cls, o).id)
       THEN Refuse("update", cls, o, "DataValidationError", injected)
       ELSE Finish("update", cls, o,
                   Commit(accountObj, addressObj, pending, NoTarget, injected),
                   TRUE, injected)

\* delete() of an object the session holds (unsaved = FALSE) or refuses.
DeleteMarked(cls, o, injected, unsaved) ==
    Finish("delete", cls, o,
           Commit(accountObj, addressObj, pending,
                  IF unsaved THEN NoTarget ELSE [cls |-> cls, o |-> o],
                  injected \/ unsaved),
           ~unsaved, injected)

\* obj.delete(): session.delete; commit; on any exception rollback and raise
\* DataValidationError.  session.delete() refuses an object that has no row
\* yet (transient, pending).
Delete(cls, o, injected) ==
    /\ ObjOf(cls, o).st # "free"
    /\ SeqRoom(accountObj, pending)
    /\ DeleteMarked(cls, o, injected, ObjOf(cls, o).st \in {"transient", "pending"})

\* The value find() returns for an id without a row.
Absent == [st |-> "absent"]

\* Account.find(id) / Address.find(id): the object of the session's identity
\* map when there is one and its row still exists, a new object read from
\* the row otherwise, Absent when there is no row.
FindAccount(id) ==
    IF id \notin DOMAIN accountTable THEN Absent
    ELSE IF \E a \in DOMAIN accountObj : accountObj[a].st = "persistent" /\ accountObj[a].key = id
    THEN accountObj[CHOOSE a \in DOMAIN accountObj :
                        accountObj[a].st = "persistent" /\ accountObj[a].key = id]
    ELSE ReloadAccount([BlankAccount EXCEPT !.st = "persistent", !.key = id],
                       addressObj, Committed)

FindAddress(id) ==
    IF id \notin DOMAIN addressTable THEN Absent
    ELSE IF \E d \in DOMAIN addressObj : addressObj[d].st = "persistent" /\ addressObj[d].key = id
    THEN addressObj[CHOOSE d \in DOMAIN addressObj :
                        addressObj[d].st = "persistent" /\ addressObj[d].key = id]
    ELSE ReloadAddress([BlankAddress EXCEPT !.st = "persistent", !.key = id],
                       accountObj, Committed)

\* Account.all() / Address.all(): the ids of the entities returned.
AllAccounts == DOMAIN accountTable
AllAddresses == DOMAIN addressTable

\* str.lower() on the letters, as a case-insensitive comparison would apply.
UpperLetters == <<"A", "B", "C", "D", "E", "F", "G", "H", "I", "J", "K", "L", "M",
                  "N", "O", "P", "Q", "R", "S", "T", "U", "V", "W", "X", "Y", "Z">>
LowerLetters == <<"a", "b", "c", "d", "e", "f", "g", "h", "i", "j", "k", "l", "m",
                  "n", "o", "p", "q", "r", "s", "t", "u", "v", "w", "x", "y", "z">>
LowerChar(c) ==
    IF \E i \in 1 .. 26 : UpperLetters[i] = c
    THEN LowerLetters[CHOOSE i \in 1 .. 26 : UpperLetters[i] = c]
    ELSE c
Lower(v) == IF v.t = "str" THEN PyStr([i \in 1 .. Len(v.s) |-> LowerChar(v.s[i])]) ELSE v

\* A query that compares the name without regard to case.
FindByNameIgnoringCase(db, name) ==
    { id \in DOMAIN db.account : Lower(db.account[id].name) = Lower(name) }

\* Account.find_by_name(name): the query WHERE account.name = :name, as the
\* ids of the rows it yields in the transaction's view db.
FindByName(db, name) ==
    { id \in DOMAIN db.account : db.account[id].name = name }

-----------------------------------------------------------------------------
(* Spec: the model layer on one session, driven as the model tests drive   *)
(* it: objects are built, changed in memory, appended, and created,        *)
(* updated and deleted.                                                    *)

\* The Accounts the tests build, one per slot in turn: AccountFactory()
\* saved as built, AccountFactory() whose factory-numbered id is still set
\* and whose date_joined is left to the column default, and Account() with
\* no field set.
NewAccountAt(a) ==
    CASE a % 3 = 1 -> [BlankAccount EXCEPT !.name = PyStr(SBob), !.userid = PyStr(SUser),
                           !.email = PyStr(SMail), !.date_joined = PyDate(2008, 12, 31)]
      [] a % 3 = 2 -> [BlankAccount EXCEPT !.id = PyInt(1), !.name = PyStr(SBobCap),
                           !.userid = PyStr(SUser), !.email = PyStr(SMail),
                           !.phone_number = PyStr(SPhone)]
      [] OTHER     -> BlankAccount

\* The Addresses the tests build, one per slot in turn: AddressFactory()
\* (account_id = None), and one that names an account_id itself.
NewAddressAt(d) ==
    IF d % 2 = 1 THEN SampleAddress(None, None, SHome)
    ELSE SampleAddress(None, PyInt(1), SWork)

\* The assignments made to the fields of objects in memory.
AccountEdits == { [f |-> "name", v |-> PyStr(SWork)], [f |-> "name", v |-> None] }
AddressEdits == { [f |-> "city", v |-> PyStr(SHome)] }

Init ==
    /\ accountTable = <<>> /\ addressTable = <<>>
    /\ accountSeq = 0 /\ addressSeq = 0
    /\ accountObj = [a \in AccountSlots |-> NoObject]
    /\ addressObj = [d \in AddressSlots |-> NoObject]
    /\ pending = <<>>
    /\ wire = None
    /\ last = NoCall
    /\ steps = 0 /\ request = NoRequests /\ today = DefaultDate

\* account = AccountFactory(...) / Account()
NewAccount(a) ==
    /\ accountObj[a].st = "free"
    /\ \A b \in AccountSlots : b < a => accountObj[b].st # "free"
    /\ accountObj' = [accountObj EXCEPT ![a] = NewAccountAt(a)]
    /\ last' = NoCall
    /\ UNCHANGED <<accountTable, addressTable, accountSeq, addressSeq, addressObj,
                   pending, wire, request>>
    /\ Tick

\* address = AddressFactory(...)
NewAddress(d) ==
    /\ addressObj[d].st = "free"
    /\ \A e \in AddressSlots : e < d => addressObj[e].st # "free"
    /\ addressObj' = [addressObj EXCEPT ![d] = NewAddressAt(d)]
    /\ last' = NoCall
    /\ UNCHANGED <<accountTable, addressTable, accountSeq, addressSeq, accountObj,
                   pending, wire, request>>
    /\ Tick

\* account.addresses.append(address): the backref sets address.account; the
\* collection of a persistent Account is read first, and the Address is
\* cascaded into its session.
AppendAddress(a, d) ==
    /\ accountObj[a].st \in {"transient", "persistent"}
    /\ addressObj[d].st = "transient"
    /\ addressObj[d].account = 0
    /\ accountObj' = [accountObj EXCEPT ![a].addresses = Append(@, d), ![a].loaded = TRUE]
    /\ addressObj' = [addressObj EXCEPT
                         ![d].account = a,
                         ![d].st = IF accountObj[a].st = "persistent" THEN "pending" ELSE @]
    /\ pending' = IF accountObj[a].st = "persistent" THEN Append(pending, d) ELSE pending
    /\ last' = NoCall
    /\ UNCHANGED <<accountTable, addressTable, accountSeq, addressSeq, wire, request>>
    /\ Tick

\* account.<field> = value
SetAccountField(a, e) ==
    /\ accountObj[a].st \in {"transient", "persistent"}
    /\ accountObj[a][e.f] # e.v
    /\ accountObj' = [accountObj EXCEPT ![a][e.f] = e.v]
    /\ last' = NoCall
    /\ UNCHANGED <<accountTable, addressTable, accountSeq, addressSeq, addressObj,
                   pending, wire, request>>
    /\ Tick

\* address.<field> = value with a session that writes an attribute of a
\* persistent object to its row as it is set.
SetAddressFieldWriteThrough(d, e) ==
    /\ addressObj[d].st \in {"transient", "pending", "persistent"}
    /\ addressObj[d][e.f] # e.v
    /\ addressObj' = [addressObj EXCEPT ![d][e.f] = e.v]
    /\ addressTable' = IF addressObj[d].st = "persistent"
                       THEN [addressTable EXCEPT ![addressObj[d].key][e.f] = e.v]
                       ELSE addressTable
    /\ last' = NoCall
    /\ UNCHANGED <<accountTable, accountSeq, addressSeq, accountObj,
                   pending, wire, request>>
    /\ Tick

\* address.<field> = value
SetAddressField(d, e) ==
    /\ addressObj[d].st \in {"transient", "pending", "persistent"}
    /\ addressObj[d][e.f] # e.v
    /\ addressObj' = [addressObj EXCEPT ![d][e.f] = e.v]
    /\ last' = NoCall
    /\ UNCHANGED <<accountTable, addressTable, accountSeq, addressSeq, accountObj,
                   pending, wire, request>>
    /\ Tick

\* len(account.addresses): reading the collection of a persistent Account
\* loads it.
LoadAddresses(a) ==
    /\ accountObj[a].st = "persistent"
    /\ ~accountObj[a].loaded
    /\ accountObj' = [accountObj EXCEPT ![a].loaded = TRUE]
    /\ last' = NoCall
    /\ UNCHANGED <<accountTable, addressTable, accountSeq, addressSeq, addressObj,
                   pending, wire, request>>
    /\ Tick

\* Midnight: date.today() moves on while the process keeps running.
DayPasses ==
    /\ today # DaysAfter(DefaultDate, MaxDays)
    /\ today' = NextDay(today)
    /\ steps < MaxSteps /\ steps' = steps + 1
    /\ last' = NoCall
    /\ UNCHANGED <<accountTable, addressTable, accountSeq, addressSeq, accountObj,
                   addressObj, pending, wire, request>>

Next ==
    \/ \E a \in AccountSlots : NewAccount(a)
    \/ \E d \in AddressSlots : NewAddress(d)
    \/ \E a \in AccountSlots, d \in AddressSlots : AppendAddress(a, d)
    \/ \E a \in AccountSlots, e \in AccountEdits : SetAccountField(a, e)
    \/ \E d \in AddressSlots, e \in AddressEdits : SetAddressField(d, e)
    \/ \E a \in AccountSlots : LoadAddresses(a)
    \/ \E a \in AccountSlots, injected \in BOOLEAN : Create("Account", a, injected)
    \/ \E d \in AddressSlots, injected \in BOOLEAN : Create("Address", d, injected)
    \/ \E a \in AccountSlots, injected \in BOOLEAN : Update("Account", a, injected)
    \/ \E d \in AddressSlots, injected \in BOOLEAN : Update("Address", d, injected)
    \/ \E a \in AccountSlots, injected \in BOOLEAN : Delete("Account", a, injected)
    \/ \E d \in AddressSlots, injected \in BOOLEAN : Delete("Address", d, injected)
    \/ DayPasses

Spec == Init /\ [][Next]_vars

-----------------------------------------------------------------------------
(* Claims on the model layer (Spec).                                       *)

Calls == {"create", "update", "delete"}
RowsAsBefore == accountTable = last.before.account /\ addressTable = last.before.address

\* C2: create assigns id.  After a successful create() of a transient
\* Account whose id was None, its id is not None, find(id) returns an entity
\* with the field values the Account was created with (date_joined takes the
\* column default when it was None), and all() returns exactly one entity
\* more than before the call.
C2_CreateAssignsId ==
    (/\ last.op = "create" /\ last.cls = "Account"
     /\ last.was.st = "transient" /\ last.was.id = None
     /\ last.exc = "none")
    => /\ accountObj[last.o].id # None
       /\ accountObj[last.o].id.t = "int"
       /\ FindAccount(accountObj[last.o].id.i) # Absent
       /\ AccountRow(FindAccount(accountObj[last.o].id.i), FALSE) = AccountRow(last.was, TRUE)
       /\ FindAccount(accountObj[last.o].id.i).id = accountObj[last.o].id
       /\ Cardinality(AllAccounts) = Cardinality(DOMAIN last.before.account) + 1

\* A transient Account with id None was created while another Account was
\* stored already.
C2_Witness ==
    /\ last.op = "create" /\ last.cls = "Account"
    /\ last.was.st = "transient" /\ last.was.id = None
    /\ last.exc = "none"
    /\ DOMAIN last.before.account # {}

\* C3: persistence-provider failure path.  Whenever commit() raises during
\* create(), update() or delete(), DataValidationError is raised to the
\* caller, the stored rows are exactly the rows stored before the call, and
\* the session is rolled back: nothing is pending and every persistent
\* object holds the values of its row.
C3_FailureRollsBack ==
    (last.op \in Calls /\ last.commit = "raised")
    => /\ last.exc = "DataValidationError"
       /\ RowsAsBefore
       /\ pending = <<>>
       /\ \A a \in DOMAIN accountObj :
            accountObj[a].st # "pending" /\ ~AccountDirty(Committed, accountObj[a])
       /\ \A d \in DOMAIN addressObj :
            addressObj[d].st # "pending" /\ ~AddressDirty(Committed, addressObj[d])

\* A commit raised on a constraint of the database, with rows stored and a
\* sequence value consumed by the failed transaction.
C3_Witness ==
    /\ last.op \in Calls /\ last.commit = "raised" /\ ~last.injected
    /\ DOMAIN accountTable # {}
    /\ accountSeq + addressSeq > Cardinality(DOMAIN accountTable) + Cardinality(DOMAIN addressTable)

\* C4: update requires persistence.  update() on a transient entity (id
\* unset) raises DataValidationError before any commit is attempted, and no
\* stored row is changed by the call.
C4_UpdateNeedsId ==
    (last.op = "update" /\ last.was.st = "transient" /\ Falsy(last.was.id))
    => /\ last.exc = "DataValidationError"
       /\ last.commit = "none"
       /\ RowsAsBefore

\* update() was called on a transient entity while the session held a
\* persistent entity changed in memory.
C4_Witness ==
    /\ last.op = "update" /\ last.was.st = "transient" /\ Falsy(last.was.id)
    /\ \E a \in DOMAIN accountObj : AccountDirty(Committed, accountObj[a])

\* C5: cascade delete.  After delete() of a persisted Account that owns
\* persisted Addresses (the provider not failing), find() returns absent for
\* the Account id and for the id of every Address it owned.
C5_CascadeDelete ==
    (/\ last.op = "delete" /\ last.cls = "Account"
     /\ last.was.st = "persistent" /\ ~last.injected
     /\ OwnedBy(last.before, last.was.key) # {})
    => /\ FindAccount(last.was.key) = Absent
       /\ \A i \in OwnedBy(last.before, last.was.key) : FindAddress(i) = Absent
       /\ OwnedBy(Committed, last.was.key) = {}

\* C8 as stated: a create(), update() or delete() leaves the stored row of
\* every entity other than the one it was called on unchanged.
C8_OnlyOwnUpdate ==
    (last.op \in Calls)
    => /\ \A i \in DOMAIN last.before.account \cap DOMAIN accountTable :
            \/ accountTable[i] = last.before.account[i]
            \/ last.op = "update" /\ last.cls = "Account" /\ last.was.key = i
       /\ \A i \in DOMAIN last.before.address \cap DOMAIN addressTable :
            \/ addressTable[i] = last.before.address[i]
            \/ last.op = "update" /\ last.cls = "Address" /\ last.was.key = i

\* C8: no write outside a commit.  The stored rows change only in a step
\* that is a create(), update() or delete() whose commit succeeded; setting
\* a field in memory, appending an Address, reading a collection, and a call
\* that raises leave every stored row unchanged.
C8_RowsChangeOnlyOnCommit ==
    [][(accountTable' # accountTable \/ addressTable' # addressTable)
       => (last'.op \in Calls /\ last'.commit = "ok")]_vars

\* update() on an Account wrote the changed row of an Address that update()
\* was not called on.
C8_Witness ==
    /\ last.op = "update" /\ last.cls = "Account" /\ last.commit = "ok"
    /\ accountTable = last.before.account
    /\ DOMAIN addressTable = DOMAIN last.before.address
    /\ addressTable # last.before.address

C11_DeletedIsTerminal ==
    /\ (last.op = "update" /\ last.was.st = "deleted") => last.exc # "none"
    /\ \A a \in DOMAIN accountObj :
         accountObj[a].st = "deleted" => FindAccount(accountObj[a].key) = Absent
    /\ \A d \in DOMAIN addressObj :
         addressObj[d].st = "deleted" => FindAddress(addressObj[d].key) = Absent

\* The part of C11 about find(): the id of a deleted entity stays absent.
C11_DeletedStaysAbsent ==
    /\ \A a \in DOMAIN accountObj :
         accountObj[a].st = "deleted" => FindAccount(accountObj[a].key) = Absent
    /\ \A d \in DOMAIN addressObj :
         addressObj[d].st = "deleted" => FindAddress(addressObj[d].key) = Absent

\* C12: default join date.  An Account created without a date_joined is
\* stored with date_joined equal to the day of the create() call.
C12_DefaultJoinDate ==
    ( /\ last.op = "create" /\ last.cls = "Account" /\ last.exc = "none"
      /\ IsNone(last.was.date_joined) )
    => accountTable[accountObj[last.o].key].date_joined = today

\* The names asked for: the names the Accounts carry, and near misses.
QueriedNames == { PyStr(SBob), PyStr(SBobCap), PyStr(SWork), PyStr(<<"b", "o">>) }

\* The Accounts of the session that are stored and carry the name n.
LiveAccountsNamed(n) ==
    { accountObj[a].key : a \in { b \in AccountSlots :
          accountObj[b].st = "persistent" /\ accountObj[b].name = n } }

\* C13: name filter.  After a successful create(), update() or delete(),
\* find_by_name(n) yields exactly the stored Accounts whose name is n,
\* compared as whole strings with case, all Accounts of that name included.
C13_NameFilter ==
    (last.op \in Calls /\ last.commit = "ok")
    => \A n \in QueriedNames : FindByName(Committed, n) = LiveAccountsNamed(n)

\* Two stored Accounts share a name, found together, and a name that
\* differs only by case finds neither.
C13_Witness ==
    /\ last.op \in Calls /\ last.commit = "ok"
    /\ Cardinality(FindByName(Committed, PyStr(SWork))) = 2
    /\ FindByName(Committed, PyStr(SBob)) = {}

\* Stored Accounts whose names differ only by case are told apart.
C13_CaseWitness ==
    /\ last.op \in Calls /\ last.commit = "ok"
    /\ Cardinality(FindByName(Committed, PyStr(SBob))) = 1
    /\ Cardinality(FindByName(Committed, PyStr(SBobCap))) = 1

\* The entities of the session that were created and not deleted since:
\* they were given a row, and neither delete() on them nor the deletion of
\* their Account took it away.
LiveAccountObjs ==
    { a \in DOMAIN accountObj : /\ accountObj[a].st \notin {"free", "deleted", "stale"}
                                /\ accountObj[a].key # 0 }
LiveAddressObjs ==
    { d \in DOMAIN addressObj : /\ addressObj[d].st \notin {"free", "deleted", "stale"}
                                /\ addressObj[d].key # 0 }

\* C14: all() is the live set.  After a successful create() or delete(),
\* Account.all() and Address.all() return exactly the entities created and
\* not deleted, each once.
C14_AllIsLiveSet ==
    (last.op \in Calls /\ last.commit = "ok")
    => /\ AllAccounts = { accountObj[a].key : a \in LiveAccountObjs }
       /\ Cardinality(AllAccounts) = Cardinality(LiveAccountObjs)
       /\ AllAddresses = { addressObj[d].key : d \in LiveAddressObjs }
       /\ Cardinality(AllAddresses) = Cardinality(LiveAddressObjs)

\* An entity was deleted while another one stays: all() has the one left.
C14_Witness ==
    /\ last.op = "delete" /\ last.commit = "ok" /\ last.exc = "none"
    /\ Cardinality(AllAccounts) = 1
    /\ \E a \in DOMAIN accountObj : accountObj[a].st = "deleted"

\* update() succeeds on a Persisted Account: afterwards find(account.id)
\* has the Addresses the collection held at the call, in that order, the
\* appended ones last, each stored with the field values it had in memory
\* and owned by the Account.
UpdatePersistsAddresses ==
    \A a \in DOMAIN accountObj :
        ( /\ last'.op = "update" /\ last'.cls = "Account" /\ last'.o = a
          /\ last'.exc = "none"
          /\ accountObj[a].st = "persistent" )
        => LET held == accountObj[a].addresses
               found == FindAccount(accountObj[a].key)'
           IN  /\ found # Absent
               /\ found.addresses = held
               /\ \A i \in 1 .. Len(held) :
                     LET before == addressObj[held[i]]
                         after == addressObj'[held[i]]
                     IN  /\ after.st = "persistent"
                         /\ after.key \in DOMAIN addressTable'
                         /\ addressTable'[after.key]
                               = AddressRow(before, PyInt(accountObj[a].key))
                         /\ after.name = before.name /\ after.street = before.street
                         /\ after.city = before.city /\ after.state = before.state
                         /\ after.postal_code = before.postal_code

\* delete() succeeds on an Address of a Persisted Account: afterwards
\* find(account.id).addresses is without it.
DeleteRemovesFromAddresses ==
    \A a \in DOMAIN accountObj, d \in DOMAIN addressObj :
        ( /\ last'.op = "delete" /\ last'.cls = "Address" /\ last'.o = d
          /\ last'.exc = "none"
          /\ addressObj[d].st = "persistent" /\ addressObj[d].account = a
          /\ accountObj[a].st = "persistent" )
        => LET found == FindAccount(accountObj[a].key)'
           IN  /\ found # Absent
               /\ d \notin SeqToSet(found.addresses)
               /\ SeqToSet(found.addresses) = SeqToSet(accountObj[a].addresses) \ {d}
               /\ { addressObj'[x].key : x \in SeqToSet(found.addresses) }
                     = OwnedBy(Committed, accountObj[a].key)'

\* C24: Account.update() persists the owned Addresses.  After an Address is
\* appended to a Persisted Account, or a field of one of its Addresses is
\* changed, and update() is called on the Account, find(account.id).addresses
\* has the appended Address after the earlier ones and shows the changed
\* field; after delete() on one of its Addresses it no longer has it.
C24_UpdatePersistsAddresses ==
    [][UpdatePersistsAddresses]_vars /\ [][DeleteRemovesFromAddresses]_vars

\* update() on an Account stored with one Address wrote a second one,
\* appended after it.
C24_Witness ==
    /\ last.op = "update" /\ last.cls = "Account" /\ last.exc = "none"
    /\ Cardinality(DOMAIN last.before.address) = 1
    /\ Cardinality(DOMAIN addressTable) = 2
    /\ Len(accountObj[last.o].addresses) = 2
    /\ addressObj[accountObj[last.o].addresses[2]].key = addressSeq

-----------------------------------------------------------------------------
(* SpecRoutes: the route surface.  Requests run concurrently, each in a    *)
(* session of its own on the one database; a handler that looks its target *)
(* up and then commits takes two steps, and other requests may commit in   *)
(* between.  Request r keeps the Account and the Address of its session in *)
(* accountObj[r] and addressObj[r].                                        *)

Requests == AccountSlots

\* The values of the Content-Type header; "absent" is a request without it.
ContentTypes == {"application/json", "application/json; charset=utf-8", "text/plain",
                 "absent"}

\* The bodies sent to POST /accounts and PUT /accounts/<id>.
PlainAccountBody == With(GoodAccountBody, "addresses", EmptyList)
RouteAccountBodies ==
    { PlainAccountBody,
      With(With(PlainAccountBody, "phone_number", None), "id", PyInt(2)),
      With(With(GoodAccountBody, "name", PyStr(SWork)), "addresses",
           PyList(<<With(GoodAddressBody, "account_id", PyInt(2))>>)),
      With(GoodAccountBody, "addresses",
           PyList(<<With(GoodAddressBody, "state", PyStr(SBob))>>)),
      Without(PlainAccountBody, "email"),
      EmptyDict, EmptyList }

\* The bodies sent to POST and PUT of an Address.
RouteAddressBodies ==
    { GoodAddressBody,
      With(With(With(GoodAddressBody, "account_id", PyInt(2)), "city", PyStr(SHome)),
           "id", PyInt(2)),
      With(GoodAddressBody, "account_id", None),
      Without(GoodAddressBody, "city"),
      EmptyDict, EmptyList }

\* The answer of a request: the handler, the Content-Type the request
\* came with, the status, and the exception that left the handler.
Response(op, ct, status, exc) == [op |-> op, ct |-> ct, status |-> status, exc |-> exc]

\* An error handling that answers every exception as a server error.
ErrorStatusAlways500(exc) == 500

\* The registered error handlers: DataValidationError is answered as a bad
\* request, any other exception as an internal server error.
ErrorStatus(exc) == IF exc = "DataValidationError" THEN 400 ELSE 500

Raised(op, ct, exc) == Response(op, ct, ErrorStatus(exc), exc)

\* One more step of a handler, on the same day.
RouteTick == steps < MaxRequestSteps /\ steps' = steps + 1 /\ today' = today

\* The end of a request: its answer, and its session is removed.
Answer(r, resp) ==
    /\ accountObj' = [accountObj EXCEPT ![r] = NoObject]
    /\ addressObj' = [addressObj EXCEPT ![r] = NoObject]
    /\ request' = [request EXCEPT ![r] = Idle]
    /\ last' = resp
    /\ RouteTick
    /\ UNCHANGED <<pending, wire>>

\* A request ends without a commit.
AnswerUnchanged(r, resp) ==
    /\ Answer(r, resp)
    /\ UNCHANGED <<accountTable, addressTable, accountSeq, addressSeq>>

\* A request ends after its commit left res: the answer ok when it
\* succeeded, DataValidationError otherwise.
AnswerCommitted(r, res, ok) ==
    /\ accountTable' = res.db.account
    /\ addressTable' = res.db.address
    /\ accountSeq' = res.db.aseq
    /\ addressSeq' = res.db.dseq
    /\ Answer(r, IF res.ok THEN ok ELSE Raised(ok.op, ok.ct, "DataValidationError"))

\* The statements request r's session flushes: its Account and its Address
\* are inserted when pending and updated when an attribute differs from the
\* row they were loaded with (snap); del is deleted.
RoutePlan(aobj, dobj, r, snap, del) ==
    (IF aobj[r].st = "pending" THEN <<[k |-> "insertAccount", o |-> r]>> ELSE <<>>)
    \o (IF /\ aobj[r].st = "persistent" /\ del.cls # "Account"
           /\ AccountRow(aobj[r], FALSE) # snap
        THEN <<[k |-> "updateAccount", o |-> r, base |-> snap]>> ELSE <<>>)
    \o (IF dobj[r].st = "pending" THEN <<[k |-> "insertAddress", o |-> r]>> ELSE <<>>)
    \o (IF /\ dobj[r].st = "persistent" /\ del.cls # "Address"
           /\ AddressRow(dobj[r], dobj[r].account_id) # snap
        THEN <<[k |-> "updateAddress", o |-> r, base |-> snap]>> ELSE <<>>)
    \o (IF del.cls = "Address" THEN <<[k |-> "deleteAddress", o |-> r]>>
        ELSE IF del.cls = "Account" THEN <<[k |-> "deleteAccount", o |-> r]>>
        ELSE <<>>)

\* db.session.commit() in request r's session holding account and address,
\* followed by rollback() when it raised.
RouteCommit(r, account, address, snap, del) ==
    EndTransaction(Committed,
                   RunPlan([db |-> Committed, aobj |-> [x \in {r} |-> account],
                            dobj |-> [x \in {r} |-> address], ok |-> TRUE],
                           RoutePlan([x \in {r} |-> account], [x \in {r} |-> address],
                                     r, snap, del),
                           del),
                   del)

\* A request arrives and is given the first request slot not in use.
Arrives(r) == request[r] = Idle /\ \A q \in Requests : q < r => request[q] # Idle

\* A check that only asks for the header to be there.
ContentTypeOkIfPresent(ct) == ct # "absent"

\* check_content_type(): the header is there and is application/json.
ContentTypeOk(ct) == ct = "application/json"

\* The handlers that begin with check_content_type().
Checked == {"create_accounts", "update_accounts", "create_addresses", "update_addresses"}

\* check_content_type() aborts with 415.
RejectContentType(r, op, ct) ==
    /\ Arrives(r)
    /\ ~ContentTypeOk(ct)
    /\ AnswerUnchanged(r, Response(op, ct, 415, "none"))

\* What lets a request with header ct into handler op: the check of the
\* handlers that make it; a DELETE comes without the header.
Admitted(op, ct) == IF op \in Checked THEN ContentTypeOk(ct) ELSE ct = "absent"

\* address.serialize() of the Address a new session reads from row id.
StoredAddress(db, id) ==
    AddressSerialize(ReloadAddress([BlankAddress EXCEPT !.st = "persistent", !.key = id],
                                   <<>>, db))

\* [address.serialize() for address in account.addresses] of list_addresses
\* for Account id in a new session: the rows that reference it, in id order.
SerializedAddresses(db, id) ==
    [i \in 1 .. Cardinality(OwnedBy(db, id)) |-> StoredAddress(db, Sorted(OwnedBy(db, id))[i])]

\* A serialization of an Account that leaves its Addresses out.
StoredAccountNoAddresses(db, id) ==
    AccountSerialize(ReloadAccount([BlankAccount EXCEPT !.st = "persistent", !.key = id],
                                   <<>>, db), <<>>).val

\* account.serialize() of the Account a new session reads from row id: its
\* columns and the Addresses that reference it.
StoredAccount(db, id) ==
    With(AccountSerialize(ReloadAccount([BlankAccount EXCEPT !.st = "persistent", !.key = id],
                                        <<>>, db), <<>>).val,
         "addresses", PyList(SerializedAddresses(db, id)))

\* GET /accounts/<account_id>/addresses: the list list_addresses() returns.
ListAddresses(id) == SerializedAddresses(Committed, id)

\* The answer 201 of create_accounts after commit res: the serialized
\* Account, read again from its rows, the id the Location header names, and
\* the body that was posted.
CreatedAccount(r, ct, data, res) ==
    [op |-> "create_accounts", ct |-> ct, status |-> 201, exc |-> "none",
     location |-> IF res.ok THEN res.aobj[r].key ELSE 0,
     body |-> IF res.ok THEN StoredAccount(res.db, res.aobj[r].key) ELSE None,
     data |-> data]

\* create_accounts() once the Account is built: account.create().
CreateAccountsCreate(r, ct, data, res) ==
    AnswerCommitted(r, res, CreatedAccount(r, ct, data, res))

\* create_accounts() once deserialize returned des.
CreateAccountsSave(r, ct, data, des) ==
    /\ Len(des.new) <= 1
    /\ accountSeq < MaxId /\ addressSeq + Len(des.new) <= MaxId
    /\ CreateAccountsCreate(r, ct, data,
          RouteCommit(r,
              [des.obj EXCEPT !.id = None, !.st = "pending",
                              !.addresses = [i \in 1 .. Len(des.new) |-> r]],
              IF des.new = <<>> THEN NoObject
              ELSE [des.new[1] EXCEPT !.account = r, !.st = "pending"],
              <<>>, NoTarget))

\* POST /accounts: create_accounts().
CreateAccounts(r, ct, data) ==
    /\ Arrives(r)
    /\ Admitted("create_accounts", ct)
    /\ IF AccountDeserialize(BlankAccount, data).exc # "none"
       THEN AnswerUnchanged(r, Raised("create_accounts", ct,
                                      AccountDeserialize(BlankAccount, data).exc))
       ELSE CreateAccountsSave(r, ct, data, AccountDeserialize(BlankAccount, data))

\* The handlers that begin with Account.find(account_id), and those that
\* begin with Address.find(address_id).
OnAccount == {"update_accounts", "delete_accounts", "create_addresses"}
OnAddress == {"update_addresses", "delete_addresses"}

\* A handler that answers 204 whenever find() returned nothing.
StatusAbsentNoContent(op) == 204

\* A handler that aborts with 404 whenever find() returned nothing.
StatusAbsentAlways404(op) == 404

\* The status of a handler whose find() returned nothing: DELETE answers
\* 204, the others abort(404).
StatusAbsent(op) == IF op \in {"delete_accounts", "delete_addresses"} THEN 204 ELSE 404

\* The answer of a handler that began with find(id): the id of the path and
\* whether find() returned an entity.
Handled(op, ct, status, id, found) ==
    [op |-> op, ct |-> ct, status |-> status, exc |-> "none", id |-> id, found |-> found]

\* account = Account.find(account_id) of update_accounts, delete_accounts
\* and create_addresses, in a new session.
RouteFindAccount(r, op, ct, id) ==
    /\ Arrives(r)
    /\ Admitted(op, ct)
    /\ IF id \notin DOMAIN accountTable
       THEN AnswerUnchanged(r, Handled(op, ct, StatusAbsent(op), id, FALSE))
       ELSE /\ accountObj' = [accountObj EXCEPT ![r] =
                                 ReloadAccount([BlankAccount EXCEPT !.st = "persistent",
                                                                    !.key = id],
                                               [x \in {r} |-> NoObject], Committed)]
            /\ request' = [request EXCEPT ![r] = [op |-> op, ct |-> ct, snap |-> accountTable[id]]]
            /\ last' = NoCall
            /\ RouteTick
            /\ UNCHANGED <<accountTable, addressTable, accountSeq, addressSeq,
                           addressObj, pending, wire>>

\* The account ids sent in the path of requests for one Address.
PathAccounts == {1, 2}

\* The answer of a handler of /accounts/<account_id>/addresses/<address_id>
\* that began with Address.find(address_id): both ids of the path, and
\* whether find() returned an Address.
HandledAddress(op, ct, status, a, id, found) ==
    [op |-> op, ct |-> ct, status |-> status, exc |-> "none", a |-> a, id |-> id,
     found |-> found]

\* address = Address.find(address_id) of update_addresses and
\* delete_addresses, in a new session.  No handler reads account_id a of
\* the path: it is in the answers only.
RouteFindAddress(r, op, ct, a, id) ==
    /\ Arrives(r)
    /\ Admitted(op, ct)
    /\ IF id \notin DOMAIN addressTable
       THEN AnswerUnchanged(r, HandledAddress(op, ct, StatusAbsent(op), a, id, FALSE))
       ELSE /\ addressObj' = [addressObj EXCEPT ![r] =
                                 ReloadAddress([BlankAddress EXCEPT !.st = "persistent",
                                                                    !.key = id],
                                               [x \in {r} |-> NoObject], Committed)]
            /\ request' = [request EXCEPT ![r] = [op |-> op, ct |-> ct, snap |-> addressTable[id]]]
            /\ last' = NoCall
            /\ RouteTick
            /\ UNCHANGED <<accountTable, addressTable, accountSeq, addressSeq,
                           accountObj, pending, wire>>

\* The answer of update_accounts after a commit that succeeded and left
\* db: 200 with the id of the path, the body the Account was updated from
\* and the serialized Account, read again from its rows; serialize() raises
\* ObjectDeletedError when the row is no longer there.
Updated(r, data, db) ==
    IF accountObj[r].key \in DOMAIN db.account
    THEN [op |-> "update_accounts", ct |-> request[r].ct, status |-> 200, exc |-> "none",
          id |-> accountObj[r].key, found |-> TRUE, data |-> data,
          body |-> StoredAccount(db, accountObj[r].key)]
    ELSE Raised("update_accounts", request[r].ct, "ObjectDeletedError")

\* update_accounts() once the Account holds the body: account.update().
UpdateAccountsUpdate(r, data, res) == AnswerCommitted(r, res, Updated(r, data, res.db))

\* update_accounts() once deserialize returned des: account.id =
\* account_id; account.update().
UpdateAccountsSave(r, data, des) ==
    /\ Len(des.new) <= 1
    /\ addressSeq + Len(des.new) <= MaxId
    /\ IF EmptyId(PyInt(des.obj.key))
       THEN AnswerUnchanged(r, Raised("update_accounts", request[r].ct, "DataValidationError"))
       ELSE UpdateAccountsUpdate(r, data,
               RouteCommit(r,
                   [des.obj EXCEPT !.id = PyInt(des.obj.key), !.loaded = des.new # <<>>,
                                   !.addresses = [i \in 1 .. Len(des.new) |-> r]],
                   IF des.new = <<>> THEN NoObject
                   ELSE [des.new[1] EXCEPT !.account = r, !.st = "pending"],
                   request[r].snap, NoTarget))

\* PUT /accounts/<account_id>, after the Account was found.
UpdateAccounts(r, data) ==
    /\ request[r] # Idle /\ request[r].op = "update_accounts"
    /\ IF AccountDeserialize(accountObj[r], data).exc # "none"
       THEN AnswerUnchanged(r, Raised("update_accounts", request[r].ct,
                                      AccountDeserialize(accountObj[r], data).exc))
       ELSE UpdateAccountsSave(r, data, AccountDeserialize(accountObj[r], data))

\* A 404 that is given as "no content".
StatusFoundNoContent(found) == IF found = Absent THEN 204 ELSE 200

\* The status of a GET of one entity: abort(404) when find() returned
\* nothing, 200 with the serialized entity otherwise.
StatusFound(found) == IF found = Absent THEN 404 ELSE 200

\* The answer of get_accounts(): 404, or 200 with the serialized Account.
GotAccount(id) ==
    [op |-> "get_accounts", ct |-> "absent", status |-> StatusFound(FindAccount(id)),
     exc |-> "none", id |-> id,
     body |-> IF FindAccount(id) = Absent THEN None ELSE StoredAccount(Committed, id)]

\* PUT /accounts/<account_id> with the body GET /accounts/<account_id>
\* returns, after the Account was found.
UpdateAccountsReturned(r) ==
    /\ request[r] # Idle /\ request[r].op = "update_accounts"
    /\ accountObj[r].key \in DOMAIN accountTable
    /\ UpdateAccounts(r, GotAccount(accountObj[r].key).body)

\* DELETE /accounts/<account_id>, after the Account was found:
\* account.delete().
DeleteAccounts(r) ==
    /\ request[r] # Idle /\ request[r].op = "delete_accounts"
    /\ AnswerCommitted(r,
          RouteCommit(r, accountObj[r], NoObject, request[r].snap,
                      [cls |-> "Account", o |-> r]),
          Handled("delete_accounts", request[r].ct, 204, accountObj[r].key, TRUE))

\* The answer 201 of create_addresses after commit res: the Account of the
\* path and the serialized Address, read again from its row.
CreatedAddress(r, res) ==
    [op |-> "create_addresses", ct |-> request[r].ct, status |-> 201, exc |-> "none",
     id |-> accountObj[r].key, found |-> TRUE,
     body |-> IF res.ok THEN AddressSerialize(res.dobj[r]) ELSE None]

\* create_addresses() once the Address is appended: account.update().
CreateAddressesUpdate(r, res) == AnswerCommitted(r, res, CreatedAddress(r, res))

\* create_addresses() once deserialize returned the Address:
\* account.addresses.append(address); account.update().
CreateAddressesSave(r, address) ==
    /\ addressSeq < MaxId
    /\ IF EmptyId(accountObj[r].id)
       THEN AnswerUnchanged(r, Raised("create_addresses", request[r].ct, "DataValidationError"))
       ELSE CreateAddressesUpdate(r,
               RouteCommit(r,
                   [accountObj[r] EXCEPT !.addresses = <<r>>, !.loaded = TRUE],
                   [address EXCEPT !.account = r, !.st = "pending"],
                   request[r].snap, NoTarget))

\* POST /accounts/<account_id>/addresses, after the Account was found.
CreateAddresses(r, data) ==
    /\ request[r] # Idle /\ request[r].op = "create_addresses"
    /\ IF AddressDeserialize(BlankAddress, data).exc # "none"
       THEN AnswerUnchanged(r, Raised("create_addresses", request[r].ct,
                                      AddressDeserialize(BlankAddress, data).exc))
       ELSE CreateAddressesSave(r, AddressDeserialize(BlankAddress, data).obj)

\* The answer of update_addresses after a commit that succeeded and left
\* db: 200 with the address id of the path, the body and the serialized
\* Address, read again from its row; serialize() raises ObjectDeletedError
\* when the row is no longer there.
UpdatedAddress(r, a, data, db) ==
    IF addressObj[r].key \in DOMAIN db.address
    THEN [op |-> "update_addresses", ct |-> request[r].ct, status |-> 200, exc |-> "none",
          a |-> a, id |-> addressObj[r].key, found |-> TRUE, data |-> data,
          body |-> StoredAddress(db, addressObj[r].key)]
    ELSE Raised("update_addresses", request[r].ct, "ObjectDeletedError")

\* update_addresses() once the Address holds the body: address.update().
UpdateAddressesUpdate(r, a, data, res) ==
    AnswerCommitted(r, res, UpdatedAddress(r, a, data, res.db))

\* update_addresses() once deserialize returned the Address: address.id =
\* address_id; address.update().
UpdateAddressesSave(r, a, data, address) ==
    IF EmptyId(PyInt(address.key))
    THEN AnswerUnchanged(r, Raised("update_addresses", request[r].ct, "DataValidationError"))
    ELSE UpdateAddressesUpdate(r, a, data,
            RouteCommit(r, NoObject, [address EXCEPT !.id = PyInt(address.key)],
                        request[r].snap, NoTarget))

\* PUT /accounts/<account_id>/addresses/<address_id>, after the Address was
\* found.
UpdateAddresses(r, a, data) ==
    /\ request[r] # Idle /\ request[r].op = "update_addresses"
    /\ IF AddressDeserialize(addressObj[r], data).exc # "none"
       THEN AnswerUnchanged(r, Raised("update_addresses", request[r].ct,
                                      AddressDeserialize(addressObj[r], data).exc))
       ELSE UpdateAddressesSave(r, a, data, AddressDeserialize(addressObj[r], data).obj)

\* DELETE /accounts/<account_id>/addresses/<address_id>, after the Address
\* was found: address.delete().
DeleteAddresses(r, a) ==
    /\ request[r] # Idle /\ request[r].op = "delete_addresses"
    /\ AnswerCommitted(r,
          RouteCommit(r, NoObject, addressObj[r], request[r].snap,
                      [cls |-> "Address", o |-> r]),
          HandledAddress("delete_addresses", request[r].ct, 204, a, addressObj[r].key, TRUE))

\* GET /accounts/<account_id>: get_accounts().
GetAccounts(r, id) ==
    /\ Arrives(r)
    /\ AnswerUnchanged(r, GotAccount(id))

\* The answer of get_addresses() for the path ids a and id: 404, or 200
\* with the serialized Address.
GotAddress(a, id) ==
    [op |-> "get_addresses", ct |-> "absent", status |-> StatusFound(FindAddress(id)),
     exc |-> "none", a |-> a, id |-> id,
     body |-> IF FindAddress(id) = Absent THEN None ELSE StoredAddress(Committed, id)]

\* GET /accounts/<account_id>/addresses/<address_id>: get_addresses(); the
\* Address is looked up by address_id alone.
GetAddresses(r, a, id) ==
    /\ Arrives(r)
    /\ AnswerUnchanged(r, GotAddress(a, id))

NextRoutes ==
    \/ \E r \in Requests, ct \in ContentTypes, op \in Checked : RejectContentType(r, op, ct)
    \/ \E r \in Requests, ct \in ContentTypes, data \in RouteAccountBodies :
          CreateAccounts(r, ct, data)
    \/ \E r \in Requests, op \in OnAccount, ct \in ContentTypes, id \in 1 .. MaxId :
          RouteFindAccount(r, op, ct, id)
    \/ \E r \in Requests, op \in OnAddress, ct \in ContentTypes, a \in PathAccounts,
          id \in 1 .. MaxId :
          RouteFindAddress(r, op, ct, a, id)
    \/ \E r \in Requests, id \in 1 .. MaxId : GetAccounts(r, id)
    \/ \E r \in Requests, a \in PathAccounts, id \in 1 .. MaxId : GetAddresses(r, a, id)
    \/ \E r \in Requests, data \in RouteAccountBodies : UpdateAccounts(r, data)
    \/ \E r \in Requests : UpdateAccountsReturned(r)
    \/ \E r \in Requests : DeleteAccounts(r)
    \/ \E r \in Requests, data \in RouteAddressBodies : CreateAddresses(r, data)
    \/ \E r \in Requests, a \in PathAccounts, data \in RouteAddressBodies :
          UpdateAddresses(r, a, data)
    \/ \E r \in Requests, a \in PathAccounts : DeleteAddresses(r, a)

\* The service with one Account stored: the state an earlier
\* POST /accounts of the plain body left behind.
InitRoutes ==
    /\ accountTable = Put(<<>>, 1, AccountRow(AccountDeserialize(BlankAccount,
                                                                 PlainAccountBody).obj, TRUE))
    /\ addressTable = <<>>
    /\ accountSeq = 1 /\ addressSeq = 0
    /\ accountObj = [a \in AccountSlots |-> NoObject]
    /\ addressObj = [d \in AddressSlots |-> NoObject]
    /\ pending = <<>>
    /\ wire = None
    /\ last = NoCall
    /\ steps = 0 /\ request = NoRequests /\ today = DefaultDate

SpecRoutes == InitRoutes /\ [][NextRoutes]_vars

-----------------------------------------------------------------------------
(* Claims on the route surface (SpecRoutes).                               *)

\* C9: referential integrity.  In every reachable state, after any sequence
\* and any interleaving of requests, every stored Address has a non-null
\* account_id that is the id of a stored Account, and it is in the
\* addresses collection of exactly that Account.
C9_ReferentialIntegrity ==
    \A i \in DOMAIN addressTable :
        /\ addressTable[i].account_id.t = "int"
        /\ addressTable[i].account_id.i \in DOMAIN accountTable
        /\ {a \in DOMAIN accountTable : i \in OwnedBy(Committed, a)}
              = {addressTable[i].account_id.i}

\* An Address creation lost the race against the deletion of its Account:
\* its INSERT took an id from the sequence and was refused.
C9_Witness ==
    /\ last.op = "create_addresses" /\ last.exc = "DataValidationError"
    /\ addressSeq > Cardinality(DOMAIN addressTable)
    /\ \E i \in 1 .. accountSeq : i \notin DOMAIN accountTable

\* C16: not found is a value.  find(id) of an id without a stored row
\* returns the absent value, and GET /accounts/{id} and
\* GET /accounts/{a}/addresses/{id} answer 404 exactly when it does.
C16_NotFoundIsValue ==
    /\ \A id \in 1 .. MaxId :
          /\ id \notin DOMAIN accountTable => FindAccount(id) = Absent
          /\ id \notin DOMAIN addressTable => FindAddress(id) = Absent
    /\ last.op = "get_accounts" =>
          /\ last.exc = "none"
          /\ last.status = 404 <=> last.id \notin DOMAIN accountTable
          /\ last.status = 200 <=> last.id \in DOMAIN accountTable
    /\ last.op = "get_addresses" =>
          /\ last.exc = "none"
          /\ last.status = 404 <=> last.id \notin DOMAIN addressTable
          /\ last.status = 200 <=> last.id \in DOMAIN addressTable

\* A GET of an Account that was deleted is answered 404 while an Address
\* of another Account is stored.
C16_Witness ==
    /\ last.op = "get_accounts" /\ last.status = 404
    /\ last.id \in 1 .. accountSeq
    /\ addressTable # <<>>

\* The answers of requests, as opposed to steps inside a handler.
Answered == last.op \notin {"none", "idle"}

\* C17: validation errors become 400.  Every request whose handling raises
\* DataValidationError (body without a required key, body that is no
\* dictionary, failed create / update / delete) is answered 400.
C17_ValidationErrorIs400 ==
    (Answered /\ last.exc = "DataValidationError") => last.status = 400

\* POST /accounts of a body whose Address the database refuses: the
\* INSERTs took ids from both sequences, the commit failed, the answer is 400.
C17_Witness ==
    /\ last.op = "create_accounts" /\ last.exc = "DataValidationError"
    /\ last.status = 400
    /\ addressSeq > Cardinality(DOMAIN addressTable)

\* A body that lacks a key was answered 400 by PUT /accounts/{id}.
C17_BodyWitness ==
    /\ last.op = "update_accounts" /\ last.exc = "DataValidationError"
    /\ last.status = 400
    /\ accountSeq = 1 /\ addressSeq = 0

\* A request to a handler that checks the Content-Type, sent without the
\* header or with another value than application/json, is answered 415,
\* whatever its path ids and its body are.
WrongContentTypeIs415 ==
    (Answered /\ last.op \in Checked /\ last.ct # "application/json") => last.status = 415

\* The step that answers 415 changes no stored row.
Answer415ChangesNoRow ==
    (last'.op \in Checked /\ last'.status = 415)
        => accountTable' = accountTable /\ addressTable' = addressTable

\* C18: Content-Type gate.  A POST or PUT whose Content-Type is absent or
\* is not application/json is answered 415 and changes no stored row; the
\* check comes before any lookup or deserialization, so neither 404 nor 400
\* is answered instead.
C18_ContentTypeGate == []WrongContentTypeIs415 /\ [][Answer415ChangesNoRow]_vars

\* A PUT /accounts/{id} without Content-Type is answered 415 when no
\* Account is stored, where the lookup would have given 404.
C18_Witness ==
    /\ last.op = "update_accounts" /\ last.ct = "absent" /\ last.status = 415
    /\ accountTable = <<>>

\* The step that answers a request with an error status changes no stored
\* row.
FailedRequestChangesNoRow ==
    (last'.op \notin {"none", "idle"} /\ last'.status >= 400)
        => accountTable' = accountTable /\ addressTable' = addressTable

\* Nothing of a request that has ended stays in memory for later requests:
\* its session went with it.
EndedRequestsLeaveNothing ==
    \A r \in Requests :
        request[r] = Idle => accountObj[r] = NoObject /\ addressObj[r] = NoObject

\* C19: request atomicity.  A request that fails at any step leaves every
\* stored row as it was before the request, and later requests neither see
\* nor commit its in-memory changes.
C19_RequestAtomicity == [][FailedRequestChangesNoRow]_vars /\ []EndedRequestsLeaveNothing

\* PUT /accounts/{id} was answered 400 and the Account's row is the one it
\* was stored with.
C19_Witness ==
    /\ last.op = "update_accounts" /\ last.status = 400
    /\ 1 \in DOMAIN accountTable
    /\ accountTable[1].name = PyStr(SBob) /\ accountTable[1].phone_number = PyStr(SPhone)

\* The name, userid, email, phone_number and date_joined a body gives an
\* Account.
RowOfBody(data) == AccountRow(AccountDeserialize(BlankAccount, data).obj, FALSE)

\* C20: last writer wins per row.  When PUT /accounts/{id} requests run
\* concurrently and are answered 200, the stored name, userid, email,
\* phone_number and date_joined all come from the body of the request that
\* committed last: after each such answer the row is the row of its body.
C20_LastWriterWins ==
    (last.op = "update_accounts" /\ last.status = 200 /\ last.id \in DOMAIN accountTable)
        => accountTable[last.id] = RowOfBody(last.data)

\* The stored row takes its fields from two bodies: it is the row of no
\* body that is sent.
C20_MixedRow ==
    /\ last.op = "update_accounts" /\ last.status = 200
    /\ last.id \in DOMAIN accountTable
    /\ \A data \in RouteAccountBodies :
          AccountDeserialize(BlankAccount, data).exc = "none"
              => accountTable[last.id] # RowOfBody(data)


\* The table a DELETE handler works on.
TableOf(op) == IF op = "delete_accounts" THEN accountTable ELSE addressTable

\* A DELETE is answered 204, and when it is, no row has the id of its path.
DeleteAnswers204 ==
    last.op \in {"delete_accounts", "delete_addresses"} =>
        /\ last.status = 204 /\ last.exc = "none"
        /\ last.id \notin DOMAIN TableOf(last.op)

\* A GET of an id that was given out and has no row is answered 404.
GetOfDeletedIs404 ==
    /\ (last.op = "get_accounts" /\ last.id \notin DOMAIN accountTable) => last.status = 404
    /\ (last.op = "get_addresses" /\ last.id \notin DOMAIN addressTable) => last.status = 404

\* A DELETE whose target has no row changes no row and takes no id.
RepeatedDeleteChangesNothing ==
    (/\ last'.op \in {"delete_accounts", "delete_addresses"}
     /\ last'.id \notin DOMAIN TableOf(last'.op))
        => UNCHANGED <<accountTable, addressTable, accountSeq, addressSeq>>

\* An id whose row was deleted is never given to a row again.
DeletedStaysDeleted ==
    /\ \A i \in 1 .. accountSeq : i \notin DOMAIN accountTable => i \notin DOMAIN accountTable'
    /\ \A i \in 1 .. addressSeq : i \notin DOMAIN addressTable => i \notin DOMAIN addressTable'

\* C22: delete is idempotent at the HTTP layer.  DELETE /accounts/{id} and
\* DELETE /accounts/{a}/addresses/{id} are answered 204 whether or not the
\* target exists, a repeated DELETE changes nothing further, and once the
\* first one was answered a GET of the resource is answered 404.
C22_DeleteIdempotent ==
    /\ [](DeleteAnswers204 /\ GetOfDeletedIs404)
    /\ [][RepeatedDeleteChangesNothing /\ DeletedStaysDeleted]_vars

\* A second DELETE /accounts/1 found nothing and was answered 204, with
\* the Account deleted by the first.
C22_Witness ==
    /\ last.op = "delete_accounts" /\ last.status = 204 /\ ~last.found
    /\ last.id = 1 /\ accountTable = <<>>


\* A POST of an Address that was answered 201.
AddressCreated(resp) == resp.op = "create_addresses" /\ resp.status = 201

\* The Address of a 201 has an id, its account_id is the Account of the
\* path, and it is the stored row of that id.
CreatedAddressIsOwned ==
    AddressCreated(last) =>
        /\ last.body.d.id.t = "int"
        /\ last.body.d.account_id = PyInt(last.id)
        /\ last.body.d.id.i \in DOMAIN addressTable
        /\ last.body = StoredAddress(Committed, last.body.d.id.i)

\* The step that answers 201 puts the new Address at the end of the list
\* of the path's Account, stores one row more and changes no other row.
ListGrowsByOne ==
    \A a \in 1 .. MaxId :
        (AddressCreated(last') /\ last'.id = a) =>
            /\ ListAddresses(a)' = Append(ListAddresses(a), last'.body)
            /\ Cardinality(DOMAIN addressTable') = Cardinality(DOMAIN addressTable) + 1
            /\ \A i \in DOMAIN addressTable : i \in DOMAIN addressTable'
                                                /\ addressTable'[i] = addressTable[i]
            /\ accountTable' = accountTable

\* C23: a new Address is owned by the Account of the path.  A successful
\* POST /accounts/{a}/addresses is answered 201 with an Address whose id is
\* assigned and whose account_id is a, whatever account_id the body
\* carries; the Address is then in GET /accounts/{a}/addresses, whose list
\* grows by exactly one per successful POST.
C23_NewAddressOwnedByPath == []CreatedAddressIsOwned /\ [][ListGrowsByOne]_vars

\* Account 1 took a second Address from a body that names Account 2.
C23_Witness ==
    /\ AddressCreated(last) /\ last.id = 1
    /\ last.body.d.city = PyStr(SHome) /\ last.body.d.account_id = PyInt(1)
    /\ Len(ListAddresses(1)) = 2

\* Account 1 took an Address from a body whose account_id is null or 1.
C23_NullWitness ==
    /\ AddressCreated(last) /\ last.id = 1
    /\ last.body.d.city = PyStr(SWork) /\ last.body.d.account_id = PyInt(1)


\* A POST of an Account that was answered 201.
AccountCreated(resp) == resp.op = "create_accounts" /\ resp.status = 201

\* The name, email, phone_number and date_joined of a serialized Account
\* are those of the body posted.
SamePostedScalars(got, data) ==
    /\ got.d.name = data.d.name /\ got.d.email = data.d.email
    /\ got.d.phone_number = Get(data, "phone_number").val
    /\ got.d.date_joined = data.d.date_joined

\* The 201 carries the serialized Account, and a GET of its Location is
\* answered 200 with that same Account.
LocationResolves ==
    AccountCreated(last) =>
        /\ last.body.d.id = PyInt(last.location)
        /\ GotAccount(last.location).status = 200
        /\ GotAccount(last.location).body = last.body
        /\ SamePostedScalars(last.body, last.data)

Puts == {"update_accounts", "update_addresses"}
PutTable(op) == IF op = "update_accounts" THEN accountTable ELSE addressTable

\* A PUT is answered 404 exactly when find() returned nothing; its 200
\* carries the id of the path, which is the id of a stored row, and a GET of
\* that id carries it too.
PutAnswersPathId ==
    (last.op \in Puts /\ last.exc = "none" /\ last.status # 415) =>
        /\ last.status \in {200, 404}
        /\ last.status = 404 <=> ~last.found
        /\ last.status = 200 =>
              /\ last.id \in DOMAIN PutTable(last.op)
              /\ last.body.d.id = PyInt(last.id)
              /\ last.op = "update_accounts" =>
                     /\ GotAccount(last.id).status = 200
                     /\ GotAccount(last.id).body.d.id = PyInt(last.id)
              /\ last.op = "update_addresses" =>
                     StoredAddress(Committed, last.id).d.id = PyInt(last.id)

\* The step that answers a PUT with 404 found no row of the path id and
\* writes nothing.
PutOfAbsentWritesNothing ==
    (last'.op \in Puts /\ last'.status = 404) =>
        /\ last'.id \notin DOMAIN PutTable(last'.op)
        /\ UNCHANGED <<accountTable, addressTable, accountSeq, addressSeq>>

\* Every row that is stored before a step is stored after it with the same
\* id and the same fields, except the row id of table t.
OtherRowsKept(t, id) ==
    /\ \A i \in DOMAIN accountTable :
          (t = "account" /\ i = id) \/
             (i \in DOMAIN accountTable' /\ accountTable'[i] = accountTable[i])
    /\ \A i \in DOMAIN addressTable :
          (t = "address" /\ i = id) \/
             (i \in DOMAIN addressTable' /\ addressTable'[i] = addressTable[i])

\* The step that answers a PUT with 200 leaves the row of the path id
\* stored, each of its columns as it was or as the body has it, and changes
\* the id and the fields of no other row; no Account is added, and no
\* Address by a PUT of an Address.
PutWritesPathRowOnly ==
    /\ (last'.op = "update_accounts" /\ last'.status = 200) =>
          /\ DOMAIN accountTable' = DOMAIN accountTable
          /\ OtherRowsKept("account", last'.id)
          /\ \A f \in DOMAIN RowOfBody(last'.data) :
                accountTable'[last'.id][f]
                    \in {accountTable[last'.id][f], RowOfBody(last'.data)[f]}
    /\ (last'.op = "update_addresses" /\ last'.status = 200) =>
          /\ DOMAIN addressTable' = DOMAIN addressTable
          /\ accountTable' = accountTable
          /\ OtherRowsKept("address", last'.id)
          /\ \A f \in DOMAIN addressTable[last'.id] :
                addressTable'[last'.id][f]
                    \in {addressTable[last'.id][f], last'.data.d[f]}

\* C25: PUT keeps the identity of the path.  PUT /accounts/{id} and
\* PUT /accounts/{a}/addresses/{id} are answered 404 without any write when
\* no entity with the path id exists; otherwise the row with the path id is
\* the one updated, the response and a later GET carry that id, and no
\* other row's id or fields change, whatever id the body carries.
C25_PutKeepsPathIdentity ==
    /\ []PutAnswersPathId
    /\ [][PutOfAbsentWritesNothing /\ PutWritesPathRowOnly]_vars

\* PUT /accounts/1 with a body that carries id 2 was answered 200 while
\* Account 2 is stored: the row of Account 1 took the body's phone_number.
C25_Witness ==
    /\ last.op = "update_accounts" /\ last.status = 200 /\ last.id = 1
    /\ "id" \in DOMAIN last.data.d /\ last.data.d.id = PyInt(2)
    /\ 2 \in DOMAIN accountTable
    /\ accountTable[1].phone_number = None /\ accountTable[2].phone_number # None

\* PUT of Address 1 with a body that carries id 2 was answered 200.
C25_AddressWitness ==
    /\ last.op = "update_addresses" /\ last.status = 200 /\ last.id = 1
    /\ last.data.d.id = PyInt(2) /\ addressTable[1].city = PyStr(SHome)

\* PUT of an id that has no row was answered 404.
C25_AbsentWitness ==
    /\ last.op = "update_accounts" /\ last.status = 404 /\ last.id = 2
    /\ 1 \in DOMAIN accountTable


\* A GET of /accounts/{a}/addresses/{i} that is answered 200 returns an
\* Address of Account a.
GetScopedToAccount ==
    (last.op = "get_addresses" /\ last.status = 200)
        => last.body.d.account_id = PyInt(last.a)

\* A PUT or DELETE of /accounts/{a}/addresses/{i} changes or deletes only
\* an Address whose stored account_id is a, and a PUT leaves a as its
\* account_id.
WriteScopedToAccount ==
    /\ (/\ last'.op = "delete_addresses" /\ last'.exc = "none"
        /\ last'.id \in DOMAIN addressTable /\ last'.id \notin DOMAIN addressTable')
          => addressTable[last'.id].account_id = PyInt(last'.a)
    /\ (last'.op = "update_addresses" /\ last'.status = 200)
          => /\ addressTable'[last'.id] # addressTable[last'.id]
                   => addressTable[last'.id].account_id = PyInt(last'.a)
             /\ addressTable'[last'.id].account_id = PyInt(last'.a)

\* C29: the Address routes are scoped to the Account of the path.  A GET,
\* PUT or DELETE of /accounts/{a}/addresses/{i} never returns, changes or
\* deletes an Address whose stored account_id is not a, and a PUT never
\* changes the account_id of the Address to another value than a.
C29_ScopedToPathAccount == []GetScopedToAccount /\ [][WriteScopedToAccount]_vars

\* GET /accounts/2/addresses/{i} returned an Address of Account 1.
C29_ForeignAddressReturned ==
    /\ last.op = "get_addresses" /\ last.status = 200 /\ last.a = 2
    /\ last.body.d.account_id = PyInt(1)

\* PUT /accounts/1/addresses/{i} was answered 200 and left the Address
\* with Account 2: it changed an Address of Account 2, or moved one there.
C29_ForeignAddressPut ==
    /\ last.op = "update_addresses" /\ last.status = 200 /\ last.a = 1
    /\ last.body.d.account_id = PyInt(2)


\* The name, street, city, state and postal_code of a serialized Address.
Place(entry) ==
    <<entry.d.name, entry.d.street, entry.d.city, entry.d.state, entry.d.postal_code>>

\* The stored state of Account id is what body data describes: its row has
\* the body's fields and its Addresses are the body's entries, in order.
StoredAs(id, data) ==
    /\ accountTable[id] = RowOfBody(data)
    /\ Len(ListAddresses(id)) = Len(data.d.addresses.items)
    /\ \A i \in 1 .. Len(ListAddresses(id)) :
          Place(ListAddresses(id)[i]) = Place(data.d.addresses.items[i])

\* A PUT that is answered 200 for a body the Account is already stored as
\* (the body an earlier PUT stored, or the one a GET returns) changes no row.
PutOfStoredBodyChangesNothing ==
    \A id \in DOMAIN accountTable :
        (/\ last'.op = "update_accounts" /\ last'.status = 200 /\ last'.id = id
         /\ StoredAs(id, last'.data))
            => UNCHANGED <<accountTable, addressTable>>

\* C30: PUT /accounts/{id} is idempotent.  Sending the same valid body
\* twice, in particular the body GET /accounts/{id} returns for an Account
\* with Addresses, leaves the stored state it left the first time; the
\* number of Addresses of the Account does not grow with repeated PUTs.
C30_PutIdempotent == [][PutOfStoredBodyChangesNothing]_vars

\* The PUT of the body that GET returned for an Account with one Address
\* was answered 200 and the Account has that Address twice.
C30_AddressesDoubled ==
    /\ last.op = "update_accounts" /\ last.status = 200
    /\ "id" \in DOMAIN last.data.d /\ last.data.d.id = PyInt(last.id)
    /\ Len(last.data.d.addresses.items) = 1
    /\ Len(ListAddresses(last.id)) = 2
    /\ Place(ListAddresses(last.id)[1]) = Place(ListAddresses(last.id)[2])

=============================================================================
